---- MODULE Spec2Model ----
(***************************************************************************)
(* Event-venue scheduling and staff-assignment workflow of unibook-server. *)
(* The relational store is modelled by the tables the handlers read and    *)
(* write (users, events, event_staff_assignments); each handler of         *)
(* forumController.ts and teacherController.ts is one action.  `last` is   *)
(* the reply of the most recent call: the handler and the kind of its      *)
(* outcome.  Outcome kinds name the replies of the code:                   *)
(*   "ok"               2xx                                                *)
(*   "InvalidInterval"  400 "End time must be after start time."           *)
(*   "VenueConflict"    409 "... already booked ..."                       *)
(*   "NotFound"         404 / 400 "... not found ..."                      *)
(*   "Forbidden"        403 / 400 "Forbidden: ..."                         *)
(*   "InvalidRole"      400 "You can only request teachers ..."            *)
(*   "DuplicateRequest" 409 "... already been requested ..."               *)
(*   "ScheduleConflict" 409 "... already assigned to another event ..."    *)
(*   "Unexpected"       500 "An unexpected error occurred."                *)
(*   "InvalidTarget"    400 "This user is not a pending forum head." etc.  *)
(*   "MissingForum"     400 "A forumId is required ..."                    *)
(*   "DuplicateEmail"   409 "A user with this email already exists."       *)
(*   "InvalidCollege"   400 "Invalid college selected." / domain mismatch  *)
(*   "InvalidOtp"       400 "Invalid OTP ..."                              *)
(*   "PendingApproval"  403 code PENDING_APPROVAL                          *)
(* `tx` holds the db.transaction calls in flight, for the specifications   *)
(* that interleave two calls statement by statement.                       *)
(***************************************************************************)
EXTENDS Integers, FiniteSets, Sequences, TLC

VARIABLES users, forumHeads, events, assignments, last, tx

vars == <<users, forumHeads, events, assignments, last, tx>>

(* ---------------------------- bounds ---------------------------------- *)

\* Number of event rows the store may hold at once.
MaxEvents == 2

\* Timestamps are the instants 0..MaxTime.
MaxTime == 2

\* Number of event_staff_assignments rows the store may hold at once.
MaxAssignments == 2

\* In the event lifecycle alone, timestamps are the instants 0..MaxBookingTime.
MaxBookingTime == 3

EventIds == 1..MaxEvents

Times == 0..MaxTime

BookingTimes == 0..MaxBookingTime

\* Where authorization is examined, timestamps are the instants 0..MaxAuthTime.
MaxAuthTime == 1

AuthTimes == 0..MaxAuthTime

\* Number of forum_heads rows the store may hold at once.
MaxMemberships == 5

\* Number of forums that createForum may create with heads.
MaxForums == 1

(* ---------------------------- the store -------------------------------- *)

\* A nullable column that holds NULL.
Null == "null"

\* A text field that the request body does not supply.
Undefined == "undefined"

\* A time field that the request body does not supply.
UndefinedTime == -1

UserIds == {"h1", "a1", "t1", "t2", "t3"}

\* A user id that names no row of users.
UnknownUser == "u0"

\* venues.id -> venues.collegeId
VenueCollege == [v \in {"v1", "v2"} |-> IF v = "v1" THEN "c1" ELSE "c2"]

Venues == DOMAIN VenueCollege

\* A venue id that names no row of venues.
UnknownVenue == "v0"

\* The users table after the colleges' accounts have been set up.
InitUsers ==
  [u \in UserIds |->
     CASE u = "h1" -> [role |-> "forum_head", collegeId |-> "c1"]
       [] u = "a1" -> [role |-> "college_admin", collegeId |-> "c1"]
       [] u = "t1" -> [role |-> "teacher", collegeId |-> "c1"]
       [] u = "t2" -> [role |-> "teacher", collegeId |-> "c1"]
       [] u = "t3" -> [role |-> "teacher", collegeId |-> "c2"]]

\* The users table when the second college has a forum head of its own.
InitUsersTenant ==
  [u \in UserIds \cup {"h2"} |->
     IF u = "h2" THEN [role |-> "forum_head", collegeId |-> "c2"] ELSE InitUsers[u]]

\* The users table when the first college has two forum heads and each college
\* has an admin, a forum head and a teacher of its own.
InitUsersAuth ==
  [u \in {"h1", "h3", "a1", "t1", "h2", "a2", "t3"} |->
     CASE u \in {"h1", "h3"} -> [role |-> "forum_head", collegeId |-> "c1"]
       [] u = "h2" -> [role |-> "forum_head", collegeId |-> "c2"]
       [] u = "a1" -> [role |-> "college_admin", collegeId |-> "c1"]
       [] u = "a2" -> [role |-> "college_admin", collegeId |-> "c2"]
       [] u = "t1" -> [role |-> "teacher", collegeId |-> "c1"]
       [] u = "t3" -> [role |-> "teacher", collegeId |-> "c2"]]

\* request.user as the authentication middleware supplies it.
Principal(u) == [id |-> u, role |-> users[u].role, collegeId |-> users[u].collegeId]

\* The row of events with the given id (the caller checks that it exists).
EventById(evs, id) == CHOOSE e \in evs : e.id = id

EventExists(evs, id) == \E e \in evs : e.id = id

\* A fresh primary key for an events row.
FreshEventId(evs) == CHOOSE i \in EventIds : (~EventExists(evs, i)) /\ (\A j \in EventIds : (~EventExists(evs, j)) => i <= j)

\* A fresh primary key for an event_staff_assignments row, named by the pair it
\* is inserted for and the number of rows that pair already has.
FreshAssignmentId(asg, eventId, userId) ==
  <<eventId, userId,
    1 + Cardinality({a \in asg : a.eventId = eventId /\ a.userId = userId})>>

\* An assignment id that names no row of event_staff_assignments.
UnknownAssignment == <<0, UnknownUser, 0>>

(* ------------------------ interval conflict checks --------------------- *)

\* Half-open overlap of [s1,e1) and [s2,e2) as the specification defines it.
Overlaps(s1, e1, s2, e2) == s1 < e2 /\ s2 < e1

\* VenueQueryMatches without its third alternative: an event that encloses the
\* window is not matched.
VenueQueryMatchesNoEnclosing(e, venueId, start, end) ==
  /\ e.venueId = venueId
  /\ \/ (e.startTime >= start /\ e.startTime <= end)
     \/ (e.endTime >= start /\ e.endTime <= end)

\* VenueQueryMatches without the condition on the venue: every event whose
\* window matches, the events that book no venue included.
VenueQueryMatchesAnyVenue(e, venueId, start, end) ==
  \/ (e.startTime >= start /\ e.startTime <= end)
  \/ (e.endTime >= start /\ e.endTime <= end)
  \/ (e.startTime <= start /\ e.endTime >= end)

\* The where-clause of the venue query of createEvent / updateEvent.
VenueQueryMatches(e, venueId, start, end) ==
  /\ e.venueId = venueId
  /\ \/ (e.startTime >= start /\ e.startTime <= end)
     \/ (e.endTime >= start /\ e.endTime <= end)
     \/ (e.startTime <= start /\ e.endTime >= end)

\* Rows the venue query of createEvent returns.
CreateConflicts(evs, venueId, start, end) ==
  {e \in evs : VenueQueryMatches(e, venueId, start, end)}

\* UpdateConflicts with the first alternative of the where-clause only: events
\* that start inside the window.
UpdateConflictsStartOnly(evs, eventId, venueId, start, end) ==
  {e \in evs : /\ e.id # eventId
               /\ e.venueId = venueId
               /\ e.startTime >= start /\ e.startTime <= end}

\* Rows the venue query of updateEvent returns (the event itself excluded).
UpdateConflicts(evs, eventId, venueId, start, end) ==
  {e \in evs : e.id # eventId /\ VenueQueryMatches(e, venueId, start, end)}

(* ------------------------------ handlers ------------------------------- *)

Reply(op, res) == [op |-> op, res |-> res]

\* Values of events.resizeMode that request bodies supply.
ResizeModes == {"cover", "contain"}

\* POST /events
createEvent(p, startTime, endTime, venueId, resizeMode) ==
  /\ p.role = "forum_head"
  /\ IF startTime >= endTime
       THEN /\ last' = Reply("createEvent", "InvalidInterval")
            /\ UNCHANGED <<users, events, assignments>>
     ELSE IF venueId # Null /\ CreateConflicts(events, venueId, startTime, endTime) # {}
       THEN /\ last' = Reply("createEvent", "VenueConflict")
            /\ UNCHANGED <<users, events, assignments>>
     \* events.venue_id references venues.id: the insert of any other id fails
     ELSE IF venueId # Null /\ venueId \notin Venues
       THEN /\ last' = Reply("createEvent", "Unexpected")
            /\ UNCHANGED <<users, events, assignments>>
     ELSE /\ \E i \in EventIds : ~EventExists(events, i)
          /\ events' = events \cup
               {[id |-> FreshEventId(events), venueId |-> venueId,
                 startTime |-> startTime, endTime |-> endTime,
                 organizerId |-> p.id, collegeId |-> p.collegeId,
                 resizeMode |-> IF resizeMode = Undefined THEN Null ELSE resizeMode]}
          /\ last' = Reply("createEvent", "ok")
          /\ UNCHANGED <<users, assignments>>

\* Overlay that ignores the supplied value.
OverlayStored(supplied, stored, omitted) == stored

\* A supplied field laid over the stored one: updateData.x ? updateData.x : existingEvent.x
Overlay(supplied, stored, omitted) == IF supplied # omitted THEN supplied ELSE stored

\* PUT /events/:eventId
updateEvent(p, eventId, startTime, endTime, venueId, resizeMode) ==
  IF ~(\E e \in events : e.id = eventId /\ e.collegeId = p.collegeId)
    THEN /\ last' = Reply("updateEvent", "NotFound")
         /\ UNCHANGED <<users, events, assignments>>
  ELSE IF p.role # "forum_head"
    THEN /\ last' = Reply("updateEvent", "Forbidden")
         /\ UNCHANGED <<users, events, assignments>>
  ELSE
    LET existingEvent == EventById(events, eventId)
        newStartTime == Overlay(startTime, existingEvent.startTime, UndefinedTime)
        newEndTime == Overlay(endTime, existingEvent.endTime, UndefinedTime)
        newVenueId == Overlay(venueId, existingEvent.venueId, Undefined)
        \* updateData.resizeMode || "cover"
        newResizeMode == IF resizeMode \in {Undefined, Null} THEN "cover" ELSE resizeMode
        \* updateData.venueId is truthy only for a venue id
        checked == /\ newVenueId # Null
                   /\ (startTime # UndefinedTime \/ endTime # UndefinedTime
                       \/ venueId \notin {Undefined, Null})
    IN IF checked /\ UpdateConflicts(events, eventId, newVenueId, newStartTime, newEndTime) # {}
         THEN /\ last' = Reply("updateEvent", "VenueConflict")
              /\ UNCHANGED <<users, events, assignments>>
       \* events.venue_id references venues.id: the update to any other id fails
       ELSE IF newVenueId # Null /\ newVenueId \notin Venues
         THEN /\ last' = Reply("updateEvent", "Unexpected")
              /\ UNCHANGED <<users, events, assignments>>
       ELSE /\ events' = (events \ {existingEvent}) \cup
                 {[existingEvent EXCEPT !.startTime = newStartTime,
                                        !.endTime = newEndTime,
                                        !.venueId = newVenueId,
                                        !.resizeMode = newResizeMode]}
            /\ last' = Reply("updateEvent", "ok")
            /\ UNCHANGED <<users, assignments>>

\* deleteEvent on a store whose assignments do not follow their event.
deleteEventNoCascade(p, eventId) ==
  IF ~(\E e \in events : e.id = eventId /\ e.collegeId = p.collegeId)
    THEN /\ last' = Reply("deleteEvent", "NotFound")
         /\ UNCHANGED <<users, events, assignments>>
  ELSE IF EventById(events, eventId).organizerId # p.id /\ p.role # "college_admin"
    THEN /\ last' = Reply("deleteEvent", "Forbidden")
         /\ UNCHANGED <<users, events, assignments>>
  ELSE /\ events' = {e \in events : e.id # eventId}
       /\ last' = Reply("deleteEvent", "ok")
       /\ UNCHANGED <<users, assignments>>

\* deleteEvent without the comparison of the caller with the organizer.
deleteEventAnyCaller(p, eventId) ==
  IF ~(\E e \in events : e.id = eventId /\ e.collegeId = p.collegeId)
    THEN /\ last' = Reply("deleteEvent", "NotFound")
         /\ UNCHANGED <<users, events, assignments>>
  ELSE /\ events' = {e \in events : e.id # eventId}
       /\ assignments' = {a \in assignments : a.eventId # eventId}
       /\ last' = Reply("deleteEvent", "ok")
       /\ UNCHANGED users

\* DELETE /events/:eventId (event_staff_assignments.event_id cascades)
deleteEvent(p, eventId) ==
  IF ~(\E e \in events : e.id = eventId /\ e.collegeId = p.collegeId)
    THEN /\ last' = Reply("deleteEvent", "NotFound")
         /\ UNCHANGED <<users, events, assignments>>
  ELSE IF EventById(events, eventId).organizerId # p.id /\ p.role # "college_admin"
    THEN /\ last' = Reply("deleteEvent", "Forbidden")
         /\ UNCHANGED <<users, events, assignments>>
  ELSE /\ events' = {e \in events : e.id # eventId}
       /\ assignments' = {a \in assignments : a.eventId # eventId}
       /\ last' = Reply("deleteEvent", "ok")
       /\ UNCHANGED users

\* removeStaffFromEvent deleting the row only while it is pending.
removeStaffFromEventPendingOnly(p, eventId, staffUserId) ==
  IF ~(\E e \in events : e.id = eventId /\ e.collegeId = p.collegeId)
    THEN /\ last' = Reply("removeStaffFromEvent", "NotFound")
         /\ UNCHANGED <<users, events, assignments>>
  ELSE IF EventById(events, eventId).organizerId # p.id /\ p.role # "college_admin"
    THEN /\ last' = Reply("removeStaffFromEvent", "Forbidden")
         /\ UNCHANGED <<users, events, assignments>>
  ELSE /\ assignments' = {a \in assignments :
                            ~(a.eventId = eventId /\ a.userId = staffUserId
                              /\ a.status = "pending")}
       /\ last' = Reply("removeStaffFromEvent", "ok")
       /\ UNCHANGED <<users, events>>

\* DELETE /events/:eventId/staff/:staffUserId
removeStaffFromEvent(p, eventId, staffUserId) ==
  IF ~(\E e \in events : e.id = eventId /\ e.collegeId = p.collegeId)
    THEN /\ last' = Reply("removeStaffFromEvent", "NotFound")
         /\ UNCHANGED <<users, events, assignments>>
  ELSE IF EventById(events, eventId).organizerId # p.id /\ p.role # "college_admin"
    THEN /\ last' = Reply("removeStaffFromEvent", "Forbidden")
         /\ UNCHANGED <<users, events, assignments>>
  ELSE /\ assignments' = {a \in assignments :
                            ~(a.eventId = eventId /\ a.userId = staffUserId)}
       /\ last' = Reply("removeStaffFromEvent", "ok")
       /\ UNCHANGED <<users, events>>

\* ApprovedOf filtering on the status name the handlers' comments use,
\* 'accepted', which no row carries.
ApprovedOfAccepted(asg, teacherId) ==
  {a \in asg : a.userId = teacherId /\ a.status = "accepted"}

\* The teacher's approved assignments, each with its event.
ApprovedOf(asg, teacherId) ==
  {a \in asg : a.userId = teacherId /\ a.status = "approved"}

\* isOverlapping testing only whether the new event starts inside the existing one.
isOverlappingStartInside(newEvent, existingEvent) ==
  newEvent.startTime >= existingEvent.startTime /\ newEvent.startTime < existingEvent.endTime

\* isOverlapping testing only whether the new event ends inside the existing one.
isOverlappingEndInside(newEvent, existingEvent) ==
  newEvent.endTime > existingEvent.startTime /\ newEvent.endTime <= existingEvent.endTime

\* isOverlapping of requestStaffForEvent and acceptStaffRequest.
isOverlapping(newEvent, existingEvent) ==
  newEvent.startTime < existingEvent.endTime /\ newEvent.endTime > existingEvent.startTime

\* The approved assignments of the teacher on which the loop throws.
ScheduleConflicts(evs, asg, teacherId, event) ==
  {a \in ApprovedOf(asg, teacherId) : isOverlapping(event, EventById(evs, a.eventId))}

\* ExistingAssignment looking only at the rows that are still pending.
ExistingAssignmentPending(asg, eventId, teacherUserId) ==
  {a \in asg : a.eventId = eventId /\ a.userId = teacherUserId /\ a.status = "pending"}

\* The rows the duplicate query of requestStaffForEvent matches.
ExistingAssignment(asg, eventId, teacherUserId) ==
  {a \in asg : a.eventId = eventId /\ a.userId = teacherUserId}

\* requestStaffForEvent comparing only the college of the event with the caller's.
requestStaffForEventAnyCollegeTeacher(p, eventId, teacherUserId) ==
  /\ p.role = "forum_head"
  /\ IF ~EventExists(events, eventId) \/ teacherUserId \notin DOMAIN users
       THEN /\ last' = Reply("requestStaffForEvent", "NotFound")
            /\ UNCHANGED <<users, events, assignments>>
     ELSE IF EventById(events, eventId).collegeId # p.collegeId
       THEN /\ last' = Reply("requestStaffForEvent", "Forbidden")
            /\ UNCHANGED <<users, events, assignments>>
     ELSE IF users[teacherUserId].role # "teacher"
       THEN /\ last' = Reply("requestStaffForEvent", "InvalidRole")
            /\ UNCHANGED <<users, events, assignments>>
     ELSE IF ExistingAssignment(assignments, eventId, teacherUserId) # {}
       THEN /\ last' = Reply("requestStaffForEvent", "DuplicateRequest")
            /\ UNCHANGED <<users, events, assignments>>
     ELSE IF ScheduleConflicts(events, assignments, teacherUserId,
                               EventById(events, eventId)) # {}
       THEN /\ last' = Reply("requestStaffForEvent", "ScheduleConflict")
            /\ UNCHANGED <<users, events, assignments>>
     ELSE /\ Cardinality(assignments) < MaxAssignments
          /\ assignments' = assignments \cup
               {[id |-> FreshAssignmentId(assignments, eventId, teacherUserId),
                 eventId |-> eventId,
                 userId |-> teacherUserId, status |-> "pending"]}
          /\ last' = Reply("requestStaffForEvent", "ok")
          /\ UNCHANGED <<users, events>>

\* requestStaffForEvent running the schedule check before the duplicate query.
requestStaffForEventScheduleFirst(p, eventId, teacherUserId) ==
  /\ p.role = "forum_head"
  /\ IF ~EventExists(events, eventId) \/ teacherUserId \notin DOMAIN users
       THEN /\ last' = Reply("requestStaffForEvent", "NotFound")
            /\ UNCHANGED <<users, events, assignments>>
     ELSE IF \/ EventById(events, eventId).collegeId # p.collegeId
             \/ users[teacherUserId].collegeId # p.collegeId
       THEN /\ last' = Reply("requestStaffForEvent", "Forbidden")
            /\ UNCHANGED <<users, events, assignments>>
     ELSE IF users[teacherUserId].role # "teacher"
       THEN /\ last' = Reply("requestStaffForEvent", "InvalidRole")
            /\ UNCHANGED <<users, events, assignments>>
     ELSE IF ScheduleConflicts(events, assignments, teacherUserId,
                               EventById(events, eventId)) # {}
       THEN /\ last' = Reply("requestStaffForEvent", "ScheduleConflict")
            /\ UNCHANGED <<users, events, assignments>>
     ELSE IF ExistingAssignment(assignments, eventId, teacherUserId) # {}
       THEN /\ last' = Reply("requestStaffForEvent", "DuplicateRequest")
            /\ UNCHANGED <<users, events, assignments>>
     ELSE /\ Cardinality(assignments) < MaxAssignments
          /\ assignments' = assignments \cup
               {[id |-> FreshAssignmentId(assignments, eventId, teacherUserId),
                 eventId |-> eventId,
                 userId |-> teacherUserId, status |-> "pending"]}
          /\ last' = Reply("requestStaffForEvent", "ok")
          /\ UNCHANGED <<users, events>>

\* POST /events/:eventId/staff
requestStaffForEvent(p, eventId, teacherUserId) ==
  /\ p.role = "forum_head"
  /\ IF ~EventExists(events, eventId) \/ teacherUserId \notin DOMAIN users
       THEN /\ last' = Reply("requestStaffForEvent", "NotFound")
            /\ UNCHANGED <<users, events, assignments>>
     ELSE IF \/ EventById(events, eventId).collegeId # p.collegeId
             \/ users[teacherUserId].collegeId # p.collegeId
       THEN /\ last' = Reply("requestStaffForEvent", "Forbidden")
            /\ UNCHANGED <<users, events, assignments>>
     ELSE IF users[teacherUserId].role # "teacher"
       THEN /\ last' = Reply("requestStaffForEvent", "InvalidRole")
            /\ UNCHANGED <<users, events, assignments>>
     ELSE IF ExistingAssignment(assignments, eventId, teacherUserId) # {}
       THEN /\ last' = Reply("requestStaffForEvent", "DuplicateRequest")
            /\ UNCHANGED <<users, events, assignments>>
     ELSE IF ScheduleConflicts(events, assignments, teacherUserId,
                               EventById(events, eventId)) # {}
       THEN /\ last' = Reply("requestStaffForEvent", "ScheduleConflict")
            /\ UNCHANGED <<users, events, assignments>>
     ELSE /\ Cardinality(assignments) < MaxAssignments
          /\ assignments' = assignments \cup
               {[id |-> FreshAssignmentId(assignments, eventId, teacherUserId),
                 eventId |-> eventId,
                 userId |-> teacherUserId, status |-> "pending"]}
          /\ last' = Reply("requestStaffForEvent", "ok")
          /\ UNCHANGED <<users, events>>

\* ScopedAssignment without the condition on the owner of the row.
ScopedAssignmentAnyTeacher(asg, assignmentId, teacherId, status) ==
  {a \in asg : a.id = assignmentId /\ a.status = status}

\* The row the scoped load of accept / reject / cancel returns, if any.
ScopedAssignment(asg, assignmentId, teacherId, status) ==
  {a \in asg : a.id = assignmentId /\ a.userId = teacherId /\ a.status = status}

\* UPDATE event_staff_assignments SET status = ... WHERE id = assignmentId
SetStatus(asg, assignmentId, status) ==
  {IF a.id = assignmentId THEN [a EXCEPT !.status = status] ELSE a : a \in asg}

\* POST /teachers/requests/:assignmentId/accept
acceptStaffRequest(p, assignmentId) ==
  /\ p.role = "teacher"
  /\ LET found == ScopedAssignment(assignments, assignmentId, p.id, "pending")
     IN IF found = {}
          THEN /\ last' = Reply("acceptStaffRequest", "NotFound")
               /\ UNCHANGED <<users, events, assignments>>
        ELSE LET assignmentToAccept == CHOOSE a \in found : TRUE
                 eventToJoin == EventById(events, assignmentToAccept.eventId)
             IN IF ScheduleConflicts(events, assignments, p.id, eventToJoin) # {}
                  THEN /\ last' = Reply("acceptStaffRequest", "ScheduleConflict")
                       /\ UNCHANGED <<users, events, assignments>>
                ELSE /\ assignments' = SetStatus(assignments, assignmentId, "approved")
                     /\ last' = Reply("acceptStaffRequest", "ok")
                     /\ UNCHANGED <<users, events>>

\* rejectStaffRequest loading the caller's assignment whatever its status.
rejectStaffRequestAnyStatus(p, assignmentId) ==
  /\ p.role = "teacher"
  /\ IF {a \in assignments : a.id = assignmentId /\ a.userId = p.id} = {}
       THEN /\ last' = Reply("rejectStaffRequest", "NotFound")
            /\ UNCHANGED <<users, events, assignments>>
     ELSE /\ assignments' = SetStatus(assignments, assignmentId, "rejected")
          /\ last' = Reply("rejectStaffRequest", "ok")
          /\ UNCHANGED <<users, events>>

\* rejectStaffRequest preceded by the schedule check of acceptStaffRequest.
rejectStaffRequestConflictChecked(p, assignmentId) ==
  /\ p.role = "teacher"
  /\ LET found == ScopedAssignment(assignments, assignmentId, p.id, "pending")
     IN IF found = {}
          THEN /\ last' = Reply("rejectStaffRequest", "NotFound")
               /\ UNCHANGED <<users, events, assignments>>
        ELSE IF ScheduleConflicts(events, assignments, p.id,
                                  EventById(events, (CHOOSE a \in found : TRUE).eventId)) # {}
          THEN /\ last' = Reply("rejectStaffRequest", "ScheduleConflict")
               /\ UNCHANGED <<users, events, assignments>>
        ELSE /\ assignments' = SetStatus(assignments, assignmentId, "rejected")
             /\ last' = Reply("rejectStaffRequest", "ok")
             /\ UNCHANGED <<users, events>>

\* POST /teachers/requests/:assignmentId/reject
rejectStaffRequest(p, assignmentId) ==
  /\ p.role = "teacher"
  /\ IF ScopedAssignment(assignments, assignmentId, p.id, "pending") = {}
       THEN /\ last' = Reply("rejectStaffRequest", "NotFound")
            /\ UNCHANGED <<users, events, assignments>>
     ELSE /\ assignments' = SetStatus(assignments, assignmentId, "rejected")
          /\ last' = Reply("rejectStaffRequest", "ok")
          /\ UNCHANGED <<users, events>>

\* cancelStaffRequest replying 200 without deleting the row.
cancelStaffRequestKeepsRow(p, assignmentId) ==
  /\ p.role = "teacher"
  /\ IF ScopedAssignment(assignments, assignmentId, p.id, "approved") = {}
       THEN last' = Reply("cancelStaffRequest", "NotFound")
       ELSE last' = Reply("cancelStaffRequest", "ok")
  /\ UNCHANGED <<users, events, assignments>>

\* POST /teachers/requests/:assignmentId/cancel
cancelStaffRequest(p, assignmentId) ==
  /\ p.role = "teacher"
  /\ IF ScopedAssignment(assignments, assignmentId, p.id, "approved") = {}
       THEN /\ last' = Reply("cancelStaffRequest", "NotFound")
            /\ UNCHANGED <<users, events, assignments>>
     ELSE /\ assignments' = {a \in assignments : a.id # assignmentId}
          /\ last' = Reply("cancelStaffRequest", "ok")
          /\ UNCHANGED <<users, events>>

(* --------------------------- specification ----------------------------- *)

\* The two calls that the interleaved specifications run side by side.
Calls == {"call1", "call2"}

\* A call that has not started.
Idle == [pc |-> "idle", op |-> "none", req |-> <<>>, row |-> <<>>, res |-> "none"]

Init ==
  /\ users = InitUsers
  /\ forumHeads = {}
  /\ events = {}
  /\ assignments = {}
  /\ last = Reply("none", "ok")
  /\ tx = [c \in Calls |-> Idle]

\* A call that the handler rejects before it reads the request body has the
\* same outcome whatever the body holds: one body stands for all of them.
EventInScope(u, id) == \E e \in events : e.id = id /\ e.collegeId = users[u].collegeId

CreateEventStep(venueInputs, times, modes) ==
  /\ \E u \in DOMAIN users, s \in times, e \in times, v \in venueInputs \cup {Null},
        m \in modes :
       createEvent(Principal(u), s, e, v, m)
  /\ UNCHANGED <<tx, forumHeads>>

\* windows = "any": every body; windows = "nonempty": the bodies that leave the
\* event with startTime < endTime.
UpdateEventStep(venueInputs, times, windows, modes) ==
  /\ \E u \in DOMAIN users, id \in EventIds :
       IF EventInScope(u, id) /\ users[u].role = "forum_head"
         THEN \E s \in times \cup {UndefinedTime}, e \in times \cup {UndefinedTime},
                 v \in venueInputs \cup {Null, Undefined}, m \in modes :
                /\ \/ windows = "any"
                   \/ (IF s = UndefinedTime THEN EventById(events, id).startTime ELSE s)
                        < (IF e = UndefinedTime THEN EventById(events, id).endTime ELSE e)
                /\ updateEvent(Principal(u), id, s, e, v, m)
         ELSE updateEvent(Principal(u), id, UndefinedTime, UndefinedTime, Undefined,
                          Undefined)
  /\ UNCHANGED <<tx, forumHeads>>

DeleteEventStep ==
  /\ \E u \in DOMAIN users, id \in EventIds : deleteEvent(Principal(u), id)
  /\ UNCHANGED <<tx, forumHeads>>

RemoveStaffStep ==
  /\ \E u \in DOMAIN users, id \in EventIds :
       IF EventInScope(u, id)
         THEN \E t \in DOMAIN users : removeStaffFromEvent(Principal(u), id, t)
         ELSE removeStaffFromEvent(Principal(u), id, UnknownUser)
  /\ UNCHANGED <<tx, forumHeads>>

RequestStaffStep ==
  /\ \E u \in DOMAIN users, id \in EventIds, t \in DOMAIN users \cup {UnknownUser} :
       requestStaffForEvent(Principal(u), id, t)
  /\ UNCHANGED <<tx, forumHeads>>

\* Ids of the rows the store holds, and one id that names no row.
AssignmentInputs == {a.id : a \in assignments} \cup {UnknownAssignment}

AcceptStep ==
  /\ \E u \in DOMAIN users, a \in AssignmentInputs : acceptStaffRequest(Principal(u), a)
  /\ UNCHANGED <<tx, forumHeads>>

RejectStep ==
  /\ \E u \in DOMAIN users, a \in AssignmentInputs : rejectStaffRequest(Principal(u), a)
  /\ UNCHANGED <<tx, forumHeads>>

CancelStep ==
  /\ \E u \in DOMAIN users, a \in AssignmentInputs : cancelStaffRequest(Principal(u), a)
  /\ UNCHANGED <<tx, forumHeads>>

\* The event lifecycle alone: bookings of the venues v1 and v2.
NextVenue ==
  \/ CreateEventStep(Venues, BookingTimes, {"cover"})
  \/ UpdateEventStep(Venues, BookingTimes, "any", {Undefined})
  \/ DeleteEventStep

SpecVenue == Init /\ [][NextVenue]_vars

\* The staff workflow over events that book no venue and keep a non-empty window.
Next ==
  \/ CreateEventStep({}, Times, {"cover"})
  \/ UpdateEventStep({}, Times, "nonempty", {Undefined})
  \/ DeleteEventStep
  \/ RemoveStaffStep
  \/ RequestStaffStep
  \/ AcceptStep
  \/ RejectStep
  \/ CancelStep

Spec == Init /\ [][Next]_vars

\* The event lifecycle at one venue, with events that differ in resizeMode.
NextFrame ==
  \/ CreateEventStep({"v1"}, Times, ResizeModes \cup {Undefined})
  \/ UpdateEventStep({"v1"}, Times, "any", ResizeModes \cup {Null, Undefined})
  \/ DeleteEventStep

SpecFrame == Init /\ [][NextFrame]_vars

\* The staff workflow with a forum head in each of the two colleges.
InitTenant ==
  /\ users = InitUsersTenant
  /\ forumHeads = {}
  /\ events = {}
  /\ assignments = {}
  /\ last = Reply("none", "ok")
  /\ tx = [c \in Calls |-> Idle]

NextTenant ==
  \/ CreateEventStep({}, Times, {"cover"})
  \/ DeleteEventStep
  \/ RemoveStaffStep
  \/ RequestStaffStep
  \/ AcceptStep
  \/ RejectStep
  \/ CancelStep

SpecTenant == InitTenant /\ [][NextTenant]_vars

\* The staff workflow called by every role of both colleges.
InitAuth ==
  /\ users = InitUsersAuth
  /\ forumHeads = {}
  /\ events = {}
  /\ assignments = {}
  /\ last = Reply("none", "ok")
  /\ tx = [c \in Calls |-> Idle]

NextAuth ==
  \/ CreateEventStep({}, AuthTimes, {"cover"})
  \/ UpdateEventStep({}, AuthTimes, "nonempty", {Undefined})
  \/ DeleteEventStep
  \/ RemoveStaffStep
  \/ RequestStaffStep
  \/ AcceptStep
  \/ RejectStep
  \/ CancelStep

SpecAuth == InitAuth /\ [][NextAuth]_vars

\* The event lifecycle at venue v1 of college c1, called by every role of both
\* colleges with bodies that name v1, no venue or a venue that does not exist.
NextOrganizer ==
  \/ CreateEventStep({"v1", UnknownVenue}, AuthTimes, {"cover"})
  \/ UpdateEventStep({"v1", UnknownVenue}, AuthTimes, "any", {Undefined})
  \/ DeleteEventStep

SpecOrganizer == InitAuth /\ [][NextOrganizer]_vars

(* --------------------------- account approval -------------------------- *)
(* registerUser and verifyOtpAndLogin of the auth controller, approveUser  *)
(* and rejectUser of collegeAdminController.ts, approveForumHead and       *)
(* rejectForumHead of forumController.ts.  None of them opens a            *)
(* transaction; here each call runs alone.  A row of users carries         *)
(* approvalStatus, isEmailVerified and emailVerificationToken besides role *)
(* and collegeId.  forum_heads has no key: equal rows are told apart by n.  *)

Colleges == {"c1", "c2"}

\* forums.id -> forums.collegeId
ForumCollege == [f \in {"g", "h", "k"} |-> IF f = "k" THEN "c2" ELSE "c1"]

Forums == DOMAIN ForumCollege

\* The email that is not registered yet, named by the id its users row will
\* get, with the college that owns the domain of the email.
EmailDomain == [u \in {"n1", "n2"} |-> "c1"]

\* The email that registers where both colleges are examined.
NewUserIds == {"n1"}

\* An account that a super admin or a college admin has set up.
Account(role, collegeId) ==
  [role |-> role, collegeId |-> collegeId, approvalStatus |-> "approved",
   isEmailVerified |-> TRUE, emailVerificationToken |-> Null]

\* The users table before anybody registers: an admin and a forum head in each
\* college.
InitUsersApproval ==
  [u \in {"a1", "f1", "a2", "f2"} |->
     CASE u = "a1" -> Account("college_admin", "c1")
       [] u = "f1" -> Account("forum_head", "c1")
       [] u = "a2" -> Account("college_admin", "c2")
       [] u = "f2" -> Account("forum_head", "c2")]

\* A new row of forum_heads.
FreshMembership(fh, userId, forumId, isVerified) ==
  [userId |-> userId, forumId |-> forumId, isVerified |-> isVerified,
   n |-> 1 + Cardinality({r \in fh : /\ r.userId = userId
                                      /\ r.forumId = forumId
                                      /\ r.isVerified = isVerified})]

\* forum_heads as createForum leaves it: f1 heads forum g, f2 heads forum k.
InitForumHeads ==
  {FreshMembership({}, "f1", "g", TRUE), FreshMembership({}, "f2", "k", TRUE)}

\* findMany({ where: eq(forum_heads.userId, userId) })
MembershipsOf(fh, userId) == {r \in fh : r.userId = userId}

ForumIdsOf(fh, userId) == {r.forumId : r \in MembershipsOf(fh, userId)}

\* POST /register
registerUser(id, role, collegeId, forumId) ==
  IF role \notin {"student", "teacher", "forum_head"}
    THEN /\ last' = Reply("registerUser", "InvalidRole")
         /\ UNCHANGED <<users, forumHeads>>
  ELSE IF id \in DOMAIN users
    THEN /\ last' = Reply("registerUser", "DuplicateEmail")
         /\ UNCHANGED <<users, forumHeads>>
  ELSE IF collegeId \notin Colleges \/ EmailDomain[id] # collegeId
    THEN /\ last' = Reply("registerUser", "InvalidCollege")
         /\ UNCHANGED <<users, forumHeads>>
  ELSE /\ users' = [u \in DOMAIN users \cup {id} |->
                      IF u = id
                        THEN [role |-> role, collegeId |-> collegeId,
                              approvalStatus |->
                                IF role = "student" THEN "approved" ELSE "pending",
                              isEmailVerified |-> FALSE,
                              emailVerificationToken |-> "otp"]
                        ELSE users[u]]
       /\ IF forumId # Undefined
            THEN /\ Cardinality(forumHeads) < MaxMemberships
                 /\ forumHeads' = forumHeads \cup
                      {FreshMembership(forumHeads, id, forumId, FALSE)}
            ELSE UNCHANGED forumHeads
       /\ last' = Reply("registerUser", "ok")

\* POST /verify-otp; expired: emailVerificationExpires is not after now.
verifyOtpAndLogin(id, isOtpValid, expired) ==
  IF \/ id \notin DOMAIN users
     \/ expired
     \/ users[id].emailVerificationToken = Null
     \/ ~isOtpValid
    THEN /\ last' = Reply("verifyOtpAndLogin", "InvalidOtp")
         /\ UNCHANGED <<users, forumHeads>>
  ELSE /\ users' = [users EXCEPT
                      ![id].isEmailVerified = TRUE,
                      ![id].emailVerificationToken = Null,
                      ![id].approvalStatus =
                        IF users[id].role = "student" THEN "approved" ELSE "pending"]
       /\ last' = Reply("verifyOtpAndLogin",
                        IF users[id].role = "student" THEN "ok" ELSE "PendingApproval")
       /\ UNCHANGED forumHeads

\* PUT /admin/users/:userId/approve
approveUser(p, targetUserId, forumId) ==
  /\ p.role = "college_admin"
  /\ IF targetUserId \notin DOMAIN users
       THEN /\ last' = Reply("approveUser", "NotFound")
            /\ UNCHANGED <<users, forumHeads>>
     ELSE IF users[p.id].approvalStatus # "approved"
       THEN /\ last' = Reply("approveUser", "Forbidden")
            /\ UNCHANGED <<users, forumHeads>>
     ELSE IF users[p.id].collegeId # users[targetUserId].collegeId
       THEN /\ last' = Reply("approveUser", "Forbidden")
            /\ UNCHANGED <<users, forumHeads>>
     ELSE /\ users' = [users EXCEPT ![targetUserId].approvalStatus = "approved"]
          /\ IF users[targetUserId].role # "forum_head"
               THEN /\ last' = Reply("approveUser", "ok")
                    /\ UNCHANGED forumHeads
             ELSE IF forumId = Undefined
               THEN /\ last' = Reply("approveUser", "MissingForum")
                    /\ UNCHANGED forumHeads
             ELSE LET kept == {r \in forumHeads :
                                 ~(r.userId = targetUserId /\ ~r.isVerified)}
                  IN /\ Cardinality(kept) < MaxMemberships
                     /\ forumHeads' = kept \cup
                          {FreshMembership(kept, targetUserId, forumId, TRUE)}
                     /\ last' = Reply("approveUser", "ok")

\* PUT /admin/users/:userId/reject
rejectUser(p, targetUserId) ==
  /\ p.role = "college_admin"
  /\ IF targetUserId \notin DOMAIN users
       THEN /\ last' = Reply("rejectUser", "NotFound")
            /\ UNCHANGED <<users, forumHeads>>
     ELSE IF users[targetUserId].collegeId # p.collegeId
       THEN /\ last' = Reply("rejectUser", "Forbidden")
            /\ UNCHANGED <<users, forumHeads>>
     ELSE IF \/ users[targetUserId].approvalStatus = "approved"
             \/ users[targetUserId].role \notin {"teacher", "forum_head"}
       THEN /\ last' = Reply("rejectUser", "InvalidTarget")
            /\ UNCHANGED <<users, forumHeads>>
     ELSE /\ users' = [users EXCEPT ![targetUserId].approvalStatus = "rejected"]
          /\ forumHeads' =
               IF users[targetUserId].role = "forum_head"
                 THEN {r \in forumHeads : ~(r.userId = targetUserId /\ ~r.isVerified)}
                 ELSE forumHeads
          /\ last' = Reply("rejectUser", "ok")

\* PeerDecisionCheck without the search for a common forum.
PeerDecisionCheckAnyForum(p, targetUserId) ==
  IF p.role # "forum_head" THEN "Forbidden"
  ELSE IF targetUserId \notin DOMAIN users THEN "NotFound"
  ELSE IF users[p.id].approvalStatus # "approved" THEN "Forbidden"
  ELSE IF \/ users[targetUserId].approvalStatus # "pending"
          \/ users[targetUserId].role # "forum_head" THEN "InvalidTarget"
  ELSE IF users[p.id].collegeId # users[targetUserId].collegeId THEN "Forbidden"
  ELSE "ok"

\* The checks that approveForumHead and rejectForumHead share: the reply that
\* refuses the call, or "ok".
PeerDecisionCheck(p, targetUserId) ==
  IF p.role # "forum_head" THEN "Forbidden"
  ELSE IF targetUserId \notin DOMAIN users THEN "NotFound"
  ELSE IF users[p.id].approvalStatus # "approved" THEN "Forbidden"
  ELSE IF \/ users[targetUserId].approvalStatus # "pending"
          \/ users[targetUserId].role # "forum_head" THEN "InvalidTarget"
  ELSE IF users[p.id].collegeId # users[targetUserId].collegeId THEN "Forbidden"
  ELSE IF ForumIdsOf(forumHeads, p.id) \cap ForumIdsOf(forumHeads, targetUserId) = {}
    THEN "Forbidden"
  ELSE "ok"

\* POST /forums/heads/:userId/approve.  approverForumAssignments comes from a
\* findMany without orderBy, so its element 0 is any row of the approver.
approveForumHead(p, targetUserId) ==
  IF PeerDecisionCheck(p, targetUserId) # "ok"
    THEN /\ last' = Reply("approveForumHead", PeerDecisionCheck(p, targetUserId))
         /\ UNCHANGED <<users, forumHeads>>
  ELSE \E first \in MembershipsOf(forumHeads, p.id) :
         /\ Cardinality(forumHeads) < MaxMemberships
         /\ users' = [users EXCEPT ![targetUserId].approvalStatus = "approved"]
         /\ forumHeads' = forumHeads \cup
              {FreshMembership(forumHeads, targetUserId, first.forumId, TRUE)}
         /\ last' = Reply("approveForumHead", "ok")

\* POST /forums/heads/:userId/reject
rejectForumHead(p, targetUserId) ==
  IF PeerDecisionCheck(p, targetUserId) # "ok"
    THEN /\ last' = Reply("rejectForumHead", PeerDecisionCheck(p, targetUserId))
         /\ UNCHANGED <<users, forumHeads>>
  ELSE /\ users' = [users EXCEPT ![targetUserId].approvalStatus = "rejected"]
       /\ forumHeads' = {r \in forumHeads : r.userId # targetUserId}
       /\ last' = Reply("rejectForumHead", "ok")

\* The users that can hold a token: login and verifyOtpAndLogin sign one only
\* for a user whose email is verified.
Callers == {u \in DOMAIN users : users[u].isEmailVerified}

RegisterStep ==
  /\ \E id \in NewUserIds, role \in {"student", "teacher", "forum_head", "college_admin"},
        c \in Colleges, f \in Forums \cup {Undefined} :
       registerUser(id, role, c, f)
  /\ UNCHANGED <<events, assignments, tx>>

VerifyOtpStep ==
  /\ \E id \in NewUserIds, isOtpValid \in BOOLEAN, expired \in BOOLEAN :
       verifyOtpAndLogin(id, isOtpValid, expired)
  /\ UNCHANGED <<events, assignments, tx>>

ApproveUserStep ==
  /\ \E u \in Callers, t \in DOMAIN users \cup {UnknownUser}, f \in Forums \cup {Undefined} :
       approveUser(Principal(u), t, f)
  /\ UNCHANGED <<events, assignments, tx>>

RejectUserStep ==
  /\ \E u \in Callers, t \in DOMAIN users \cup {UnknownUser} :
       rejectUser(Principal(u), t)
  /\ UNCHANGED <<events, assignments, tx>>

ApproveForumHeadStep ==
  /\ \E u \in Callers, t \in DOMAIN users \cup {UnknownUser} :
       approveForumHead(Principal(u), t)
  /\ UNCHANGED <<events, assignments, tx>>

RejectForumHeadStep ==
  /\ \E u \in Callers, t \in DOMAIN users \cup {UnknownUser} :
       rejectForumHead(Principal(u), t)
  /\ UNCHANGED <<events, assignments, tx>>

InitApproval ==
  /\ users = InitUsersApproval
  /\ forumHeads = InitForumHeads
  /\ events = {}
  /\ assignments = {}
  /\ last = Reply("none", "ok")
  /\ tx = [c \in Calls |-> Idle]

NextApproval ==
  \/ RegisterStep
  \/ VerifyOtpStep
  \/ ApproveUserStep
  \/ RejectUserStep
  \/ ApproveForumHeadStep
  \/ RejectForumHeadStep

SpecApproval == InitApproval /\ [][NextApproval]_vars

\* Peer governance inside one college: the admin a1, the forum head f1 of
\* forum g, and two emails that register as forum heads of g or of no forum.
PeerNewUserIds == DOMAIN EmailDomain

InitUsersPeer ==
  [u \in {"a1", "f1"} |->
     IF u = "a1" THEN Account("college_admin", "c1") ELSE Account("forum_head", "c1")]

InitPeer ==
  /\ users = InitUsersPeer
  /\ forumHeads = {FreshMembership({}, "f1", "g", TRUE)}
  /\ events = {}
  /\ assignments = {}
  /\ last = Reply("none", "ok")
  /\ tx = [c \in Calls |-> Idle]

PeerRegisterStep ==
  /\ \E id \in PeerNewUserIds, f \in {"g", Undefined} :
       registerUser(id, "forum_head", "c1", f)
  /\ UNCHANGED <<events, assignments, tx>>

PeerVerifyOtpStep ==
  /\ \E id \in PeerNewUserIds, isOtpValid \in BOOLEAN :
       verifyOtpAndLogin(id, isOtpValid, FALSE)
  /\ UNCHANGED <<events, assignments, tx>>

PeerApproveUserStep ==
  /\ \E u \in Callers, t \in DOMAIN users, f \in {"g", Undefined} :
       approveUser(Principal(u), t, f)
  /\ UNCHANGED <<events, assignments, tx>>

NextPeer ==
  \/ PeerRegisterStep
  \/ PeerVerifyOtpStep
  \/ PeerApproveUserStep
  \/ RejectUserStep
  \/ ApproveForumHeadStep
  \/ RejectForumHeadStep

SpecPeer == InitPeer /\ [][NextPeer]_vars

(* ------------------------------ createForum ---------------------------- *)

\* The id of the forums row that createForum inserts: forums created here are
\* numbered, and every one that counts has a row of forum_heads.
FreshForumId(fh) == 1 + Cardinality({r.forumId : r \in fh})

\* POST /api/v1/admin/forums.  A throw inside the transaction is not caught by the
\* handler: the transaction rolls back and the reply is a 500.
createForum(p, headIds) ==
  IF p.role # "college_admin"
    THEN /\ last' = Reply("createForum", "Forbidden")
         /\ UNCHANGED <<users, forumHeads>>
  ELSE IF headIds = {}
    THEN /\ last' = Reply("createForum", "ok")
         /\ UNCHANGED <<users, forumHeads>>
  ELSE IF \/ ~(headIds \subseteq DOMAIN users)
          \/ \E h \in headIds \cap DOMAIN users :
               users[h].collegeId # p.collegeId \/ users[h].role = "college_admin"
    THEN /\ last' = Reply("createForum", "Unexpected")
         /\ UNCHANGED <<users, forumHeads>>
  ELSE /\ FreshForumId(forumHeads) <= MaxForums
       /\ users' = [u \in DOMAIN users |->
                      IF u \in headIds THEN [users[u] EXCEPT !.role = "forum_head"]
                                       ELSE users[u]]
       /\ forumHeads' = forumHeads \cup
            {FreshMembership(forumHeads, h, FreshForumId(forumHeads), TRUE) : h \in headIds}
       /\ last' = Reply("createForum", "ok")

\* Bodies name no head, one head or two.
CreateForumStep ==
  /\ \E u \in DOMAIN users, headIds \in SUBSET (DOMAIN users \cup {UnknownUser}) :
       /\ Cardinality(headIds) <= 2
       /\ createForum(Principal(u), headIds)
  /\ UNCHANGED <<events, assignments, tx>>

\* The staff workflow while the college admin creates forums.
NextForum ==
  \/ CreateEventStep({}, AuthTimes, {"cover"})
  \/ DeleteEventStep
  \/ RemoveStaffStep
  \/ RequestStaffStep
  \/ AcceptStep
  \/ RejectStep
  \/ CancelStep
  \/ CreateForumStep

SpecForum == Init /\ [][NextForum]_vars

(* ------------------ two calls, statement by statement ------------------ *)
(* db.transaction opens a transaction at the default isolation level of    *)
(* PostgreSQL, READ COMMITTED: every statement reads the rows committed    *)
(* when it starts, and the rows a transaction writes are visible to the    *)
(* other transactions from its commit on.                                  *)

\* A call that has replied.
Done(t, res) == [t EXCEPT !.pc = "done", !.res = res]

\* Rows that the transactions in flight have inserted and not yet committed.
UncommittedEvents == {tx[c].row : c \in {d \in Calls : tx[d].pc = "commit" /\ tx[d].op = "createEvent"}}

\* createEvent up to the start of its transaction.
CreateEventBegin(c, p, startTime, endTime, venueId, resizeMode) ==
  /\ tx[c].pc = "idle"
  /\ p.role = "forum_head"
  /\ tx' = [tx EXCEPT ![c] =
       IF startTime >= endTime
         THEN Done([Idle EXCEPT !.op = "createEvent"], "InvalidInterval")
         ELSE [pc |-> "check", op |-> "createEvent",
               req |-> [organizerId |-> p.id, collegeId |-> p.collegeId,
                        startTime |-> startTime, endTime |-> endTime,
                        venueId |-> venueId,
                        resizeMode |-> IF resizeMode = Undefined THEN Null ELSE resizeMode],
               row |-> <<>>, res |-> "none"]]
  /\ UNCHANGED <<users, forumHeads, events, assignments, last>>

\* createEvent: tx.query.events.findFirst and the throw that rolls back.
CreateEventCheck(c) ==
  /\ tx[c].pc = "check" /\ tx[c].op = "createEvent"
  /\ LET r == tx[c].req
     IN tx' = [tx EXCEPT ![c] =
          IF r.venueId # Null
               /\ CreateConflicts(events, r.venueId, r.startTime, r.endTime) # {}
            THEN Done(@, "VenueConflict")
            ELSE [@ EXCEPT !.pc = "insert"]]
  /\ UNCHANGED <<users, forumHeads, events, assignments, last>>

\* createEvent: tx.insert(events), not yet committed.
CreateEventInsert(c) ==
  /\ tx[c].pc = "insert" /\ tx[c].op = "createEvent"
  /\ \E i \in EventIds : ~EventExists(events \cup UncommittedEvents, i)
  /\ LET r == tx[c].req
     IN tx' = [tx EXCEPT ![c] =
          [@ EXCEPT !.pc = "commit",
                    !.row = [id |-> FreshEventId(events \cup UncommittedEvents),
                             venueId |-> r.venueId,
                             startTime |-> r.startTime, endTime |-> r.endTime,
                             organizerId |-> r.organizerId,
                             collegeId |-> r.collegeId,
                             resizeMode |-> r.resizeMode]]]
  /\ UNCHANGED <<users, forumHeads, events, assignments, last>>

\* createEvent: the transaction commits and the handler replies 201.
CreateEventCommit(c) ==
  /\ tx[c].pc = "commit" /\ tx[c].op = "createEvent"
  /\ events' = events \cup {tx[c].row}
  /\ tx' = [tx EXCEPT ![c] = Done(@, "ok")]
  /\ UNCHANGED <<users, forumHeads, assignments, last>>

\* Two createEvent calls side by side on an empty store.
NextCreateRace ==
  \/ \E c \in Calls, u \in DOMAIN users, s \in Times, e \in Times, v \in Venues \cup {Null} :
       CreateEventBegin(c, Principal(u), s, e, v, "cover")
  \/ \E c \in Calls : CreateEventCheck(c)
  \/ \E c \in Calls : CreateEventInsert(c)
  \/ \E c \in Calls : CreateEventCommit(c)

SpecCreateRace == Init /\ [][NextCreateRace]_vars

\* acceptStaffRequest: the scoped findFirst of the pending assignment with its event.
AcceptLoad(c, p, assignmentId) ==
  /\ tx[c].pc = "idle"
  /\ p.role = "teacher"
  /\ LET found == ScopedAssignment(assignments, assignmentId, p.id, "pending")
     IN tx' = [tx EXCEPT ![c] =
          IF found = {}
            THEN Done([Idle EXCEPT !.op = "acceptStaffRequest"], "NotFound")
            ELSE [pc |-> "check", op |-> "acceptStaffRequest",
                  req |-> [assignmentId |-> assignmentId, teacherId |-> p.id,
                           eventToJoin |->
                             EventById(events, (CHOOSE a \in found : TRUE).eventId)],
                  row |-> <<>>, res |-> "none"]]
  /\ UNCHANGED <<users, forumHeads, events, assignments, last>>

\* acceptStaffRequest: the findMany of the approved assignments and the loop.
AcceptCheck(c) ==
  /\ tx[c].pc = "check" /\ tx[c].op = "acceptStaffRequest"
  /\ LET r == tx[c].req
     IN tx' = [tx EXCEPT ![c] =
          IF ScheduleConflicts(events, assignments, r.teacherId, r.eventToJoin) # {}
            THEN Done(@, "ScheduleConflict")
            ELSE [@ EXCEPT !.pc = "update"]]
  /\ UNCHANGED <<users, forumHeads, events, assignments, last>>

\* acceptStaffRequest: tx.update locks the row; it waits while another
\* transaction holds an uncommitted update of the same row.
AcceptUpdate(c) ==
  /\ tx[c].pc = "update" /\ tx[c].op = "acceptStaffRequest"
  /\ \A d \in Calls \ {c} :
       ~(tx[d].pc = "commit" /\ tx[d].op = "acceptStaffRequest"
           /\ tx[d].req.assignmentId = tx[c].req.assignmentId)
  /\ tx' = [tx EXCEPT ![c] = [@ EXCEPT !.pc = "commit"]]
  /\ UNCHANGED <<users, forumHeads, events, assignments, last>>

\* acceptStaffRequest: the transaction commits and the handler replies 200.
AcceptCommit(c) ==
  /\ tx[c].pc = "commit" /\ tx[c].op = "acceptStaffRequest"
  /\ assignments' = SetStatus(assignments, tx[c].req.assignmentId, "approved")
  /\ tx' = [tx EXCEPT ![c] = Done(@, "ok")]
  /\ UNCHANGED <<users, forumHeads, events, last>>

\* No call has started.
AllIdle == \A c \in Calls : tx[c].pc = "idle"

\* Two acceptStaffRequest calls side by side, on a store that successful
\* createEvent and requestStaffForEvent calls have filled beforehand.
NextAcceptRace ==
  \/ AllIdle /\ CreateEventStep({}, Times, {"cover"}) /\ last'.res = "ok"
  \/ AllIdle /\ RequestStaffStep /\ last'.res = "ok"
  \/ \E c \in Calls, u \in DOMAIN users, a \in AssignmentInputs :
       AcceptLoad(c, Principal(u), a)
  \/ \E c \in Calls : AcceptCheck(c)
  \/ \E c \in Calls : AcceptUpdate(c)
  \/ \E c \in Calls : AcceptCommit(c)

SpecAcceptRace == Init /\ [][NextAcceptRace]_vars

\* rejectStaffRequest: the findFirst of the pending assignment of the teacher.
\* Neither this read nor the update that follows runs inside a transaction.
RejectLoad(c, p, assignmentId) ==
  /\ tx[c].pc = "idle"
  /\ p.role = "teacher"
  /\ tx' = [tx EXCEPT ![c] =
       IF ScopedAssignment(assignments, assignmentId, p.id, "pending") = {}
         THEN Done([Idle EXCEPT !.op = "rejectStaffRequest"], "NotFound")
         ELSE [pc |-> "update", op |-> "rejectStaffRequest",
               req |-> [assignmentId |-> assignmentId, teacherId |-> p.id],
               row |-> <<>>, res |-> "none"]]
  /\ UNCHANGED <<users, forumHeads, events, assignments, last>>

\* rejectStaffRequest: the update, by id alone, commits on its own and the
\* handler replies 200; it waits while a transaction holds an uncommitted
\* update of the same row.
RejectUpdate(c) ==
  /\ tx[c].pc = "update" /\ tx[c].op = "rejectStaffRequest"
  /\ \A d \in Calls \ {c} :
       ~(tx[d].pc = "commit" /\ tx[d].op = "acceptStaffRequest"
           /\ tx[d].req.assignmentId = tx[c].req.assignmentId)
  /\ assignments' = SetStatus(assignments, tx[c].req.assignmentId, "rejected")
  /\ tx' = [tx EXCEPT ![c] = Done(@, "ok")]
  /\ UNCHANGED <<users, forumHeads, events, last>>

\* An acceptStaffRequest call and a rejectStaffRequest call side by side, on a
\* store that successful createEvent and requestStaffForEvent calls have
\* filled beforehand.
NextRejectRace ==
  \/ AllIdle /\ CreateEventStep({}, Times, {"cover"}) /\ last'.res = "ok"
  \/ AllIdle /\ RequestStaffStep /\ last'.res = "ok"
  \/ \E u \in DOMAIN users, a \in AssignmentInputs : AcceptLoad("call1", Principal(u), a)
  \/ AcceptCheck("call1")
  \/ AcceptUpdate("call1")
  \/ AcceptCommit("call1")
  \/ \E u \in DOMAIN users, a \in AssignmentInputs : RejectLoad("call2", Principal(u), a)
  \/ RejectUpdate("call2")

SpecRejectRace == Init /\ [][NextRejectRace]_vars

\* updateEvent: the findFirst of the event and the role check, both before the
\* transaction starts; row keeps existingEvent as it was read.
UpdateLoad(c, p, eventId, startTime, endTime, venueId) ==
  /\ tx[c].pc = "idle"
  /\ tx' = [tx EXCEPT ![c] =
       IF ~(\E e \in events : e.id = eventId /\ e.collegeId = p.collegeId)
         THEN Done([Idle EXCEPT !.op = "updateEvent"], "NotFound")
       ELSE IF p.role # "forum_head"
         THEN Done([Idle EXCEPT !.op = "updateEvent"], "Forbidden")
       ELSE [pc |-> "check", op |-> "updateEvent",
             req |-> [eventId |-> eventId, startTime |-> startTime,
                      endTime |-> endTime, venueId |-> venueId],
             row |-> EventById(events, eventId), res |-> "none"]]
  /\ UNCHANGED <<users, forumHeads, events, assignments, last>>

\* updateEvent: the effective values, computed from existingEvent, and the
\* venue query inside the transaction, which reads the committed rows.
UpdateCheck(c) ==
  /\ tx[c].pc = "check" /\ tx[c].op = "updateEvent"
  /\ LET r == tx[c].req
         existingEvent == tx[c].row
         newStartTime == Overlay(r.startTime, existingEvent.startTime, UndefinedTime)
         newEndTime == Overlay(r.endTime, existingEvent.endTime, UndefinedTime)
         newVenueId == Overlay(r.venueId, existingEvent.venueId, Undefined)
         checked == /\ newVenueId # Null
                    /\ (r.startTime # UndefinedTime \/ r.endTime # UndefinedTime
                        \/ r.venueId \notin {Undefined, Null})
     IN tx' = [tx EXCEPT ![c] =
          IF checked /\ UpdateConflicts(events, r.eventId, newVenueId,
                                        newStartTime, newEndTime) # {}
            THEN Done(@, "VenueConflict")
            ELSE [@ EXCEPT !.pc = "update"]]
  /\ UNCHANGED <<users, forumHeads, events, assignments, last>>

\* updateEvent: tx.update locks the row; it waits while another transaction
\* holds an uncommitted update of the same row.
UpdateWrite(c) ==
  /\ tx[c].pc = "update" /\ tx[c].op = "updateEvent"
  /\ \A d \in Calls \ {c} :
       ~(tx[d].pc = "commit" /\ tx[d].op = "updateEvent"
           /\ tx[d].req.eventId = tx[c].req.eventId)
  /\ tx' = [tx EXCEPT ![c] = [@ EXCEPT !.pc = "commit"]]
  /\ UNCHANGED <<users, forumHeads, events, assignments, last>>

\* updateEvent: the transaction commits and the handler replies 200.  The
\* update sets the supplied columns of the row as it is now.
UpdateCommit(c) ==
  /\ tx[c].pc = "commit" /\ tx[c].op = "updateEvent"
  /\ LET r == tx[c].req
     IN events' =
          {IF e.id = r.eventId
             THEN [e EXCEPT !.startTime = Overlay(r.startTime, e.startTime, UndefinedTime),
                            !.endTime = Overlay(r.endTime, e.endTime, UndefinedTime),
                            !.venueId = Overlay(r.venueId, e.venueId, Undefined),
                            !.resizeMode = "cover"]
             ELSE e : e \in events}
  /\ tx' = [tx EXCEPT ![c] = Done(@, "ok")]
  /\ UNCHANGED <<users, forumHeads, assignments, last>>

\* The event that the two updateEvent calls name.
RacedEvent == 1

\* Two updateEvent calls on one event side by side, one supplying a venue and
\* the other a window, on a store that successful createEvent calls have
\* filled beforehand.
NextUpdateRace ==
  \/ AllIdle /\ CreateEventStep(Venues, BookingTimes, {"cover"}) /\ last'.res = "ok"
  \/ \E u \in DOMAIN users, v \in Venues :
       UpdateLoad("call1", Principal(u), RacedEvent, UndefinedTime, UndefinedTime, v)
  \/ \E u \in DOMAIN users, st \in BookingTimes, en \in BookingTimes :
       /\ st < en
       /\ UpdateLoad("call2", Principal(u), RacedEvent, st, en, Undefined)
  \/ \E c \in Calls : UpdateCheck(c)
  \/ \E c \in Calls : UpdateWrite(c)
  \/ \E c \in Calls : UpdateCommit(c)

SpecUpdateRace == Init /\ [][NextUpdateRace]_vars

\* Rows that requestStaffForEvent transactions in flight have inserted and not
\* yet committed.
UncommittedAssignments ==
  {tx[c].row : c \in {d \in Calls : tx[d].pc = "commit" /\ tx[d].op = "requestStaffForEvent"}}

\* requestStaffForEvent: the loads of the event and the teacher and the
\* existence, tenant and role checks.
RequestLoad(c, p, eventId, teacherUserId) ==
  /\ tx[c].pc = "idle"
  /\ p.role = "forum_head"
  /\ tx' = [tx EXCEPT ![c] =
       IF ~EventExists(events, eventId) \/ teacherUserId \notin DOMAIN users
         THEN Done([Idle EXCEPT !.op = "requestStaffForEvent"], "NotFound")
       ELSE IF \/ EventById(events, eventId).collegeId # p.collegeId
               \/ users[teacherUserId].collegeId # p.collegeId
         THEN Done([Idle EXCEPT !.op = "requestStaffForEvent"], "Forbidden")
       ELSE IF users[teacherUserId].role # "teacher"
         THEN Done([Idle EXCEPT !.op = "requestStaffForEvent"], "InvalidRole")
       ELSE [pc |-> "duplicate", op |-> "requestStaffForEvent",
             req |-> [eventId |-> eventId, teacherUserId |-> teacherUserId,
                      event |-> EventById(events, eventId)],
             row |-> <<>>, res |-> "none"]]
  /\ UNCHANGED <<users, forumHeads, events, assignments, last>>

\* requestStaffForEvent: the duplicate query, which reads the committed rows.
RequestDuplicateCheck(c) ==
  /\ tx[c].pc = "duplicate" /\ tx[c].op = "requestStaffForEvent"
  /\ LET r == tx[c].req
     IN tx' = [tx EXCEPT ![c] =
          IF ExistingAssignment(assignments, r.eventId, r.teacherUserId) # {}
            THEN Done(@, "DuplicateRequest")
            ELSE [@ EXCEPT !.pc = "check"]]
  /\ UNCHANGED <<users, forumHeads, events, assignments, last>>

\* requestStaffForEvent: the findMany of the approved assignments and the loop.
RequestCheck(c) ==
  /\ tx[c].pc = "check" /\ tx[c].op = "requestStaffForEvent"
  /\ LET r == tx[c].req
     IN tx' = [tx EXCEPT ![c] =
          IF ScheduleConflicts(events, assignments, r.teacherUserId, r.event) # {}
            THEN Done(@, "ScheduleConflict")
            ELSE [@ EXCEPT !.pc = "insert"]]
  /\ UNCHANGED <<users, forumHeads, events, assignments, last>>

\* requestStaffForEvent: tx.insert(eventStaffAssignments), not yet committed.
\* The table declares unique(eventId, userId) as an object wrapped in the
\* array of its extra configuration, so the source does not settle whether
\* the store carries the constraint: uniqueEventUser is either outcome.  With
\* the constraint, the insert waits for an uncommitted row of the same pair
\* and fails (500) on a committed one; without it, the insert goes through.
RequestInsert(c, uniqueEventUser) ==
  /\ tx[c].pc = "insert" /\ tx[c].op = "requestStaffForEvent"
  /\ LET r == tx[c].req
     IN /\ uniqueEventUser =>
             ExistingAssignment(UncommittedAssignments, r.eventId, r.teacherUserId) = {}
        /\ Cardinality(assignments \cup UncommittedAssignments) < MaxAssignments
        /\ tx' = [tx EXCEPT ![c] =
             IF uniqueEventUser
                  /\ ExistingAssignment(assignments, r.eventId, r.teacherUserId) # {}
               THEN Done(@, "Unexpected")
               ELSE [@ EXCEPT !.pc = "commit",
                              !.row = [id |-> FreshAssignmentId(
                                                assignments \cup UncommittedAssignments,
                                                r.eventId, r.teacherUserId),
                                       eventId |-> r.eventId,
                                       userId |-> r.teacherUserId,
                                       status |-> "pending"]]]
  /\ UNCHANGED <<users, forumHeads, events, assignments, last>>

\* requestStaffForEvent: the transaction commits and the handler replies 200.
RequestCommit(c) ==
  /\ tx[c].pc = "commit" /\ tx[c].op = "requestStaffForEvent"
  /\ assignments' = assignments \cup {tx[c].row}
  /\ tx' = [tx EXCEPT ![c] = Done(@, "ok")]
  /\ UNCHANGED <<users, forumHeads, events, last>>

\* Two requestStaffForEvent calls side by side, on a store that successful
\* createEvent calls have filled beforehand.
NextRequestRace ==
  \/ AllIdle /\ CreateEventStep({}, Times, {"cover"}) /\ last'.res = "ok"
  \/ \E c \in Calls, u \in DOMAIN users, id \in EventIds,
        t \in DOMAIN users \cup {UnknownUser} :
       RequestLoad(c, Principal(u), id, t)
  \/ \E c \in Calls : RequestDuplicateCheck(c)
  \/ \E c \in Calls : RequestCheck(c)
  \/ \E c \in Calls, uniqueEventUser \in BOOLEAN : RequestInsert(c, uniqueEventUser)
  \/ \E c \in Calls : RequestCommit(c)

SpecRequestRace == Init /\ [][NextRequestRace]_vars

\* Two calls have both replied.
BothDone(c, d) == c # d /\ tx[c].pc = "done" /\ tx[d].pc = "done"

\* C3: of two concurrent createEvent calls that name the same venue and
\* overlapping windows, at most one commits an event.
C3_AtMostOneCreateCommits ==
  \A c \in Calls, d \in Calls :
    (/\ BothDone(c, d)
     /\ tx[c].res = "ok" /\ tx[d].res = "ok"
     /\ tx[c].req.venueId # Null
     /\ tx[c].req.venueId = tx[d].req.venueId)
      => ~Overlaps(tx[c].req.startTime, tx[c].req.endTime,
                   tx[d].req.startTime, tx[d].req.endTime)

\* C4: of two concurrent acceptStaffRequest calls by one teacher on two pending
\* assignments whose events overlap, at most one is approved; the other call
\* fails with ScheduleConflict and its assignment stays pending.
C4_AtMostOneAcceptCommits ==
  \A c \in Calls, d \in Calls :
    (/\ BothDone(c, d)
     /\ tx[c].res = "ok" /\ tx[d].res # "NotFound"
     /\ tx[c].req.teacherId = tx[d].req.teacherId
     /\ tx[c].req.assignmentId # tx[d].req.assignmentId
     /\ Overlaps(tx[c].req.eventToJoin.startTime, tx[c].req.eventToJoin.endTime,
                 tx[d].req.eventToJoin.startTime, tx[d].req.eventToJoin.endTime))
      => /\ tx[d].res = "ScheduleConflict"
         /\ \E a \in assignments :
              a.id = tx[d].req.assignmentId /\ a.status = "pending"

(* ------------------------- venue double-booking ------------------------ *)

\* Two distinct events that share a venue and whose windows overlap.
DoubleBooked(e1, e2) ==
  /\ e1.id # e2.id
  /\ e1.venueId # Null
  /\ e1.venueId = e2.venueId
  /\ Overlaps(e1.startTime, e1.endTime, e2.startTime, e2.endTime)

\* C1: after any sequence of createEvent, updateEvent and deleteEvent calls, no
\* two distinct events that share a non-null venue have overlapping windows.
C1_NoVenueDoubleBooking == \A e1 \in events, e2 \in events : ~DoubleBooked(e1, e2)

\* Two events share a venue, the second placed there by a create or an update.
C1_Witness ==
  /\ last.res = "ok"
  /\ last.op \in {"createEvent", "updateEvent"}
  /\ \E e1 \in events, e2 \in events :
       e1.id # e2.id /\ e1.venueId # Null /\ e1.venueId = e2.venueId

\* An existing event at the venue overlaps the window [start, end).
VenueTaken(venueId, start, end) ==
  \E x \in events :
    x.venueId = venueId /\ Overlaps(x.startTime, x.endTime, start, end)

\* C5: createEvent with a venue and a valid window fails with VenueConflict,
\* and leaves the events as they were, whenever an existing event at that venue
\* overlaps the window.
C5_CreateRejectsOverlap ==
  [][last'.op = "createEvent" =>
       \A s \in BookingTimes, e \in BookingTimes, v \in Venues :
         (s < e /\ VenueTaken(v, s, e)
              /\ \E u \in UserIds, m \in ResizeModes \cup {Undefined} :
                   createEvent(Principal(u), s, e, v, m))
           => (last'.res = "VenueConflict" /\ events' = events)]_vars

\* A createEvent has been refused for a venue that holds an event.
C5_Witness ==
  /\ last = Reply("createEvent", "VenueConflict")
  /\ \E x \in events : x.venueId # Null /\ x.startTime < x.endTime

\* C6: createEvent with a venue and a valid window succeeds and inserts the
\* event whenever no existing event at that venue overlaps the window, a window
\* that only touches an existing event's boundary included.
C6_CreateAcceptsFreeWindow ==
  [][last'.op = "createEvent" =>
       \A s \in BookingTimes, e \in BookingTimes, v \in Venues :
         (s < e /\ ~VenueTaken(v, s, e)
              /\ \E u \in UserIds, m \in ResizeModes \cup {Undefined} :
                   createEvent(Principal(u), s, e, v, m))
           => (last'.res = "ok" /\ Cardinality(events') = Cardinality(events) + 1)]_vars

(* ------------------------- teacher double-booking ---------------------- *)

\* The windows of the events of two assignments overlap.
AssignmentsOverlap(evs, a, b) ==
  LET ea == EventById(evs, a.eventId)
      eb == EventById(evs, b.eventId)
  IN Overlaps(ea.startTime, ea.endTime, eb.startTime, eb.endTime)

\* The approved assignments of a's teacher, other than a, whose event overlaps a's.
Blockers(evs, asg, a) ==
  {b \in asg : /\ b.id # a.id
               /\ b.userId = a.userId
               /\ b.status = "approved"
               /\ AssignmentsOverlap(evs, a, b)}

\* C2: after any sequence of calls, the events of each teacher's approved
\* assignments have pairwise non-overlapping windows, also after an updateEvent
\* that moves the window of an event on which the teacher is approved.
C2_NoTeacherDoubleBooking ==
  \A a \in assignments : a.status = "approved" => Blockers(events, assignments, a) = {}

\* C7: acceptStaffRequest on a pending assignment whose event overlaps an event
\* on which the teacher has meanwhile been approved fails with ScheduleConflict
\* and changes no assignment.
C7_AcceptRejectsOverlap ==
  [][last'.op = "acceptStaffRequest" =>
       \A a \in assignments :
         (/\ a.status = "pending"
          /\ Blockers(events, assignments, a) # {}
          /\ acceptStaffRequest(Principal(a.userId), a.id))
           => (last'.res = "ScheduleConflict" /\ assignments' = assignments)]_vars

\* An accept has been refused and the blocked assignment is still pending.
C7_Witness ==
  /\ last = Reply("acceptStaffRequest", "ScheduleConflict")
  /\ \E a \in assignments :
       a.status = "pending" /\ Blockers(events, assignments, a) # {}

\* The teacher is approved on another event whose window overlaps the event's.
TeacherBusy(evs, asg, eventId, teacherId) ==
  \E b \in asg :
    /\ b.userId = teacherId
    /\ b.status = "approved"
    /\ b.eventId # eventId
    /\ LET e == EventById(evs, eventId)
           x == EventById(evs, b.eventId)
       IN Overlaps(e.startTime, e.endTime, x.startTime, x.endTime)

\* The request passes the existence, tenant, role and duplicate checks.
RequestAdmissible(p, eventId, teacherId) ==
  /\ EventExists(events, eventId)
  /\ teacherId \in DOMAIN users
  /\ EventById(events, eventId).collegeId = p.collegeId
  /\ users[teacherId].collegeId = p.collegeId
  /\ users[teacherId].role = "teacher"
  /\ ~\E a \in assignments : a.eventId = eventId /\ a.userId = teacherId

\* C8 as stated: requestStaff fails with ScheduleConflict, and inserts nothing,
\* whenever the teacher is approved on an overlapping event.
C8_Original ==
  [][last'.op = "requestStaffForEvent" =>
       \A u \in UserIds, id \in EventIds, t \in UserIds :
         (/\ EventExists(events, id)
          /\ TeacherBusy(events, assignments, id, t)
          /\ requestStaffForEvent(Principal(u), id, t))
           => (last'.res = "ScheduleConflict" /\ assignments' = assignments)]_vars

\* C8 amended: a requestStaff that passes the existence, tenant, role and
\* duplicate checks fails with ScheduleConflict whenever the teacher is approved
\* on an overlapping event; and whatever check refuses it, a request for a
\* teacher who is approved on an overlapping event inserts nothing.
C8_RequestRejectsOverlap ==
  [][last'.op = "requestStaffForEvent" =>
       \A u \in UserIds, id \in EventIds, t \in UserIds :
         (/\ EventExists(events, id)
          /\ TeacherBusy(events, assignments, id, t)
          /\ requestStaffForEvent(Principal(u), id, t))
           => /\ assignments' = assignments
              /\ RequestAdmissible(Principal(u), id, t) => last'.res = "ScheduleConflict"]_vars

\* A request has been refused for a teacher who holds an approved assignment.
C8_Witness ==
  /\ last = Reply("requestStaffForEvent", "ScheduleConflict")
  /\ \E b \in assignments : b.status = "approved"

\* C9 as stated: requestStaff succeeds and creates a pending assignment even
\* when the event overlaps an event on which the teacher is approved.
C9_Original ==
  [][last'.op = "requestStaffForEvent" =>
       \A u \in UserIds, id \in EventIds, t \in UserIds :
         (/\ RequestAdmissible(Principal(u), id, t)
          /\ TeacherBusy(events, assignments, id, t)
          /\ requestStaffForEvent(Principal(u), id, t))
           => (last'.res = "ok" /\ assignments' # assignments)]_vars

\* C9 amended: every assignment a successful requestStaff creates is pending
\* and its event overlaps no event on which the teacher is approved; a
\* conflicting request is never left pending by requestStaff itself.
C9_RequestCreatesFreePending ==
  [][last' = Reply("requestStaffForEvent", "ok") =>
       /\ Cardinality(assignments' \ assignments) = 1
       /\ assignments \subseteq assignments'
       /\ \A a \in assignments' \ assignments :
            a.status = "pending" /\ Blockers(events', assignments', a) = {}]_vars

\* A request has succeeded for a teacher who is approved on another event.
C9_Witness ==
  /\ last = Reply("requestStaffForEvent", "ok")
  /\ \E a \in assignments, b \in assignments :
       /\ a.status = "pending" /\ b.status = "approved"
       /\ a.userId = b.userId /\ a.id # b.id

\* C10: cancelling frees the teacher's slot.  While the teacher is approved on
\* A, accepting a pending D that overlaps A fails with ScheduleConflict; a
\* successful cancelStaffRequest on A leaves D pending and unblocked when A was
\* its only blocker; and accepting a pending, unblocked D succeeds and makes D
\* approved.
C10_CancelFreesSlot ==
  /\ [][last'.op = "cancelStaffRequest" =>
          \A a \in assignments :
            (a.status = "approved" /\ cancelStaffRequest(Principal(a.userId), a.id))
              => /\ last'.res = "ok"
                 /\ \A d \in assignments :
                      (/\ d.status = "pending"
                       /\ Blockers(events, assignments, d) = {a})
                        => (d \in assignments' /\ Blockers(events', assignments', d) = {})]_vars
  /\ [][last'.op = "acceptStaffRequest" =>
          \A d \in assignments :
            (d.status = "pending" /\ acceptStaffRequest(Principal(d.userId), d.id))
              => IF Blockers(events, assignments, d) = {}
                   THEN /\ last'.res = "ok"
                        /\ [d EXCEPT !.status = "approved"] \in assignments'
                   ELSE last'.res = "ScheduleConflict" /\ d \in assignments']_vars

\* A cancel has succeeded and the teacher holds a pending assignment that no
\* approved assignment blocks.
C10_Witness ==
  /\ last = Reply("cancelStaffRequest", "ok")
  /\ \E d \in assignments :
       /\ d.status = "pending"
       /\ Blockers(events, assignments, d) = {}
       /\ \E e \in events :
            /\ e.id # d.eventId
            /\ Overlaps(e.startTime, e.endTime,
                        EventById(events, d.eventId).startTime,
                        EventById(events, d.eventId).endTime)

(* --------------------------- duplicate requests ------------------------ *)

\* The request passes the existence, tenant and role checks.
RequestValid(p, eventId, teacherId) ==
  /\ EventExists(events, eventId)
  /\ teacherId \in DOMAIN users
  /\ EventById(events, eventId).collegeId = p.collegeId
  /\ users[teacherId].collegeId = p.collegeId
  /\ users[teacherId].role = "teacher"

\* The pair has a row, the trace of an earlier successful requestStaff.
Requested(eventId, teacherId) ==
  \E a \in assignments : a.eventId = eventId /\ a.userId = teacherId

\* C11 as stated: once a requestStaff for (event, teacher) has succeeded, every
\* later requestStaff for the pair fails with DuplicateRequest and inserts
\* nothing, whatever the status of the first assignment.
C11_Original ==
  [][last'.op = "requestStaffForEvent" =>
       \A u \in DOMAIN users, id \in EventIds, t \in DOMAIN users :
         (Requested(id, t) /\ requestStaffForEvent(Principal(u), id, t))
           => (last'.res = "DuplicateRequest" /\ assignments' = assignments)]_vars

\* C11 amended: while the first assignment exists, in whatever status, every
\* later requestStaff for the pair inserts nothing, and it fails with
\* DuplicateRequest when it passes the existence, tenant and role checks (a
\* forum head of another college is refused with Forbidden instead).
C11_DuplicateRequestRefused ==
  [][last'.op = "requestStaffForEvent" =>
       \A u \in DOMAIN users, id \in EventIds, t \in DOMAIN users :
         (Requested(id, t) /\ requestStaffForEvent(Principal(u), id, t))
           => /\ assignments' = assignments
              /\ RequestValid(Principal(u), id, t) => last'.res = "DuplicateRequest"]_vars

\* A request has been refused as a duplicate while the store holds an approved
\* and a rejected assignment.
C11_Witness ==
  /\ last = Reply("requestStaffForEvent", "DuplicateRequest")
  /\ \E a \in assignments, b \in assignments :
       a.status = "approved" /\ b.status = "rejected"

\* C12: in every reachable state there is at most one staff-assignment row per
\* (event, teacher) pair, also after any interleaving of two concurrent
\* requestStaff calls for the same pair.
C12_OneRowPerPair ==
  \A a \in assignments, b \in assignments :
    (a.eventId = b.eventId /\ a.userId = b.userId) => a = b

(* --------------------------- assignment statuses ----------------------- *)

\* The status of the assignment with the given id, "absent" when no row has it.
StatusOf(asg, id) ==
  IF \E a \in asg : a.id = id THEN (CHOOSE a \in asg : a.id = id).status ELSE "absent"

\* The transitions of the state machine of an assignment, each with the
\* operation that makes it.
AllowedTransition(from, to, op) ==
  \/ from = to
  \/ from = "absent" /\ to = "pending" /\ op = "requestStaffForEvent"
  \/ from = "pending" /\ to = "approved" /\ op = "acceptStaffRequest"
  \/ from = "pending" /\ to = "rejected" /\ op = "rejectStaffRequest"
  \/ from = "approved" /\ to = "absent" /\ op = "cancelStaffRequest"
  \/ to = "absent" /\ op \in {"removeStaffFromEvent", "deleteEvent"}

OnlyOwnRowInStatus(u, id, from) ==
  IF \E a \in assignments : a.id = id /\ a.userId = u /\ a.status = from
    THEN /\ \A a \in assignments : a.id # id => a \in assignments'
         /\ \A a \in assignments' : a.id # id => a \in assignments
    ELSE last'.res = "NotFound" /\ assignments' = assignments

\* C14: acceptStaffRequest and rejectStaffRequest change an assignment only if
\* it is pending and owned by the calling teacher, cancelStaffRequest deletes
\* one only if it is approved and owned by the calling teacher; in every other
\* case the call fails with NotFound and no assignment is changed or deleted.
C14_ScopedToOwnerAndStatus ==
  [][last'.op \in {"acceptStaffRequest", "rejectStaffRequest", "cancelStaffRequest"} =>
       \A u \in DOMAIN users, id \in AssignmentInputs :
         /\ acceptStaffRequest(Principal(u), id) => OnlyOwnRowInStatus(u, id, "pending")
         /\ rejectStaffRequest(Principal(u), id) => OnlyOwnRowInStatus(u, id, "pending")
         /\ cancelStaffRequest(Principal(u), id) => OnlyOwnRowInStatus(u, id, "approved")]_vars

\* A teacher's call has been refused with NotFound while the store holds a
\* pending row of one teacher and an approved row of another.
C14_Witness ==
  /\ last.res = "NotFound"
  /\ last.op \in {"acceptStaffRequest", "rejectStaffRequest", "cancelStaffRequest"}
  /\ \E a \in assignments, b \in assignments :
       a.status = "pending" /\ b.status = "approved" /\ a.userId # b.userId

\* C15: rejectStaffRequest on a pending assignment owned by the caller and
\* cancelStaffRequest on an approved assignment owned by the caller always
\* succeed, whatever the teacher's other assignments are: the first leaves the
\* row rejected, the second deletes it, and neither fails with
\* ScheduleConflict.
C15_RejectCancelUnconditional ==
  [][last'.op \in {"rejectStaffRequest", "cancelStaffRequest"} =>
       /\ last'.res # "ScheduleConflict"
       /\ \A a \in assignments :
            /\ (a.status = "pending" /\ rejectStaffRequest(Principal(a.userId), a.id))
                 => /\ last'.res = "ok"
                    /\ assignments' = (assignments \ {a}) \cup {[a EXCEPT !.status = "rejected"]}
            /\ (a.status = "approved" /\ cancelStaffRequest(Principal(a.userId), a.id))
                 => /\ last'.res = "ok"
                    /\ assignments' = assignments \ {a}]_vars

\* A reject has succeeded on an assignment whose event overlaps an event on
\* which the same teacher is approved.
C15_Witness ==
  /\ last = Reply("rejectStaffRequest", "ok")
  /\ \E a \in assignments :
       a.status = "rejected" /\ Blockers(events, assignments, a) # {}

(* ------------------------------ updateEvent ---------------------------- *)

\* C16: every event in every reachable state has startTime < endTime;
\* createEvent rejects start >= end, and no updateEvent that supplies a new
\* startTime, a new endTime or both commits an event whose effective start is
\* at or after its effective end.
C16_ValidInterval == \A e \in events : e.startTime < e.endTime

\* The request body of an updateEvent: each field a value or omitted.
UpdateBodies ==
  [startTime : BookingTimes \cup {UndefinedTime},
   endTime : BookingTimes \cup {UndefinedTime},
   venueId : Venues \cup {Null, Undefined},
   resizeMode : ResizeModes \cup {Null, Undefined}]

\* The values the event would have with the supplied fields laid over the
\* stored ones.
Effective(ev, body) ==
  [ev EXCEPT !.startTime = IF body.startTime = UndefinedTime THEN @ ELSE body.startTime,
             !.endTime = IF body.endTime = UndefinedTime THEN @ ELSE body.endTime,
             !.venueId = IF body.venueId = Undefined THEN @ ELSE body.venueId]

\* An event other than ev, at ev's venue, whose window overlaps ev's.
OtherEventOverlaps(ev) ==
  \E x \in events : DoubleBooked(x, ev)

\* The caller is a forum head of the college of the event.
MayUpdate(u, id) == EventInScope(u, id) /\ users[u].role = "forum_head"

\* C17: updateEvent never conflicts with the event being updated: when the
\* effective (venue, start, end) of the event overlaps no other event at that
\* venue, the update succeeds, also when the new window overlaps the event's
\* own previous window at the same venue.
C17_UpdateSucceedsWhenFree ==
  [][last'.op = "updateEvent" =>
       \A u \in DOMAIN users, id \in EventIds, body \in UpdateBodies :
         (/\ MayUpdate(u, id)
          /\ LET new == Effective(EventById(events, id), body)
             IN new.startTime < new.endTime /\ ~OtherEventOverlaps(new)
          /\ updateEvent(Principal(u), id, body.startTime, body.endTime, body.venueId,
                         body.resizeMode))
           => last'.res = "ok"]_vars

\* The body changes the start, the end or the venue of the event.
ChangesBooking(ev, body) ==
  LET new == Effective(ev, body)
  IN new.startTime # ev.startTime \/ new.endTime # ev.endTime \/ new.venueId # ev.venueId

\* The call updateEvent(id, body) by a forum head of the event's college can
\* end in a reply or a store that the condition `expected` rules out.
UpdateCanEndOtherwise(id, body, expectedRes, eventsKept) ==
  \E u \in DOMAIN users :
    /\ MayUpdate(u, id)
    /\ ENABLED (/\ updateEvent(Principal(u), id, body.startTime, body.endTime,
                               body.venueId, body.resizeMode)
                /\ UNCHANGED <<tx, forumHeads>>
                /\ ~(last'.res = expectedRes /\ (eventsKept => events' = events)))

\* C18: updateEvent checks the effective values: when the call changes any of
\* start, end or venue, the effective venue is set and another event at the
\* effective venue overlaps the effective window, the call fails with
\* VenueConflict and the event keeps all its previous values; also when only
\* the venue, only the start or only the end is supplied.
C18_UpdateRejectsOverlap ==
  \A id \in EventIds, body \in UpdateBodies :
    (/\ EventExists(events, id)
     /\ ChangesBooking(EventById(events, id), body)
     /\ Effective(EventById(events, id), body).venueId # Null
     /\ OtherEventOverlaps(Effective(EventById(events, id), body)))
      => ~UpdateCanEndOtherwise(id, body, "VenueConflict", TRUE)

\* An update has been refused with VenueConflict, at a venue where two
\* events with valid windows stand.
C18_Witness ==
  /\ last = Reply("updateEvent", "VenueConflict")
  /\ \E x \in events, y \in events :
       /\ x.id # y.id /\ x.venueId # Null /\ x.venueId = y.venueId
       /\ x.startTime < x.endTime /\ y.startTime < y.endTime

\* Between the store and the primed store, the event keeps every field that
\* the body omits and every other event is unchanged.
FrameKept(id, body) ==
  LET old == EventById(events, id)
      new == EventById(events', id)
  IN /\ EventExists(events', id)
     /\ body.startTime = UndefinedTime => new.startTime = old.startTime
     /\ body.endTime = UndefinedTime => new.endTime = old.endTime
     /\ body.venueId = Undefined => new.venueId = old.venueId
     /\ body.resizeMode = Undefined => new.resizeMode = old.resizeMode
     /\ new.organizerId = old.organizerId /\ new.collegeId = old.collegeId
     /\ {e \in events' : e.id # id} = {e \in events : e.id # id}

\* C19: a successful updateEvent changes only the fields supplied in the
\* request: every field the request omits (startTime, endTime, venueId,
\* resizeMode, ...) has the same value after the update as before, and no
\* other event is changed.
C19_UpdateFrame ==
  \A id \in EventIds, body \in UpdateBodies :
    EventExists(events, id) =>
      ~\E u \in DOMAIN users :
         /\ MayUpdate(u, id)
         /\ ENABLED (/\ updateEvent(Principal(u), id, body.startTime, body.endTime,
                                    body.venueId, body.resizeMode)
                     /\ UNCHANGED <<tx, forumHeads>>
                     /\ last'.res = "ok"
                     /\ ~FrameKept(id, body))

(* ------------------------------ deleteEvent ---------------------------- *)

\* C20: every staff assignment references an event that exists; after a
\* successful deleteEvent(E) no assignment with eventId = E remains, whatever
\* the status of those assignments was, and the assignments of the other
\* events are unchanged.
C20_DeleteCascades ==
  /\ [](\A a \in assignments : EventExists(events, a.eventId))
  /\ [][last' = Reply("deleteEvent", "ok") =>
          \E id \in EventIds :
            /\ EventExists(events, id) /\ ~EventExists(events', id)
            /\ {e \in events' : e.id # id} = {e \in events : e.id # id}
            /\ assignments' = {a \in assignments : a.eventId # id}]_vars

\* An event has been deleted and the assignment of another event is still there.
C20_Witness ==
  /\ last = Reply("deleteEvent", "ok")
  /\ Cardinality(events) = 1
  /\ \E a \in assignments : a.status = "approved"

(* ------------------- authorization of delete and remove ---------------- *)

\* The caller is the organizer of the event, or an admin of its college.
OrganizerOrAdmin(u, id) ==
  \E e \in events :
    /\ e.id = id
    /\ e.collegeId = users[u].collegeId
    /\ (e.organizerId = u \/ users[u].role = "college_admin")

\* C21: deleteEvent removes an event only when the caller is its organizer or
\* an admin of its college; called by any other user of that college it
\* replies Forbidden and leaves the events and the assignments as they were.
C21_DeleteAuthorized ==
  [][last'.op = "deleteEvent" =>
       \A u \in DOMAIN users, id \in EventIds :
         deleteEvent(Principal(u), id) =>
           /\ (events' # events \/ assignments' # assignments) => OrganizerOrAdmin(u, id)
           /\ (EventInScope(u, id) /\ ~OrganizerOrAdmin(u, id)) =>
                 /\ last'.res = "Forbidden"
                 /\ events' = events
                 /\ assignments' = assignments]_vars

\* A deleteEvent call has been refused with Forbidden while two forum heads of
\* one college each organize an event and an event has staff.
C21_Witness ==
  /\ last = Reply("deleteEvent", "Forbidden")
  /\ \E e1 \in events, e2 \in events :
       /\ e1.collegeId = e2.collegeId
       /\ e1.organizerId # e2.organizerId
  /\ assignments # {}

\* C22: removeStaffFromEvent called by the organizer or an admin of the college
\* deletes the rows of exactly that (event, teacher) pair, whatever their
\* status, and keeps every other assignment and every event; called by anyone
\* else of the college it replies Forbidden and deletes nothing.
C22_RemoveStaffFrame ==
  [][last'.op = "removeStaffFromEvent" =>
       \A u \in DOMAIN users, id \in EventIds, t \in DOMAIN users \cup {UnknownUser} :
         removeStaffFromEvent(Principal(u), id, t) =>
           /\ events' = events
           /\ IF OrganizerOrAdmin(u, id)
                THEN /\ last'.res = "ok"
                     /\ assignments' =
                          {a \in assignments : ~(a.eventId = id /\ a.userId = t)}
                ELSE /\ assignments' = assignments
                     /\ EventInScope(u, id) => last'.res = "Forbidden"]_vars

\* A removeStaffFromEvent call has succeeded and has left a row of another pair.
C22_Witness ==
  /\ last = Reply("removeStaffFromEvent", "ok")
  /\ assignments # {}

(* ------------------------- tenant of an assignment --------------------- *)

\* The event and the user of every assignment belong to one college.
AssignmentsWithinTenant ==
  \A a \in assignments :
    /\ EventExists(events, a.eventId)
    /\ a.userId \in DOMAIN users
    /\ EventById(events, a.eventId).collegeId = users[a.userId].collegeId

\* C23: requestStaffForEvent inserts a row only when the event and the target
\* exist, both belong to the caller's college and the target is a teacher;
\* otherwise it replies NotFound, Forbidden or InvalidRole, in that order, and
\* inserts nothing.  So the event and the user of every assignment belong to
\* one college.
C23_RequestWithinTenant ==
  /\ []AssignmentsWithinTenant
  /\ [][last'.op = "requestStaffForEvent" =>
          \A u \in DOMAIN users, id \in EventIds, t \in DOMAIN users \cup {UnknownUser} :
            requestStaffForEvent(Principal(u), id, t) =>
              IF ~EventExists(events, id) \/ t \notin DOMAIN users
                THEN last'.res = "NotFound" /\ assignments' = assignments
              ELSE IF \/ EventById(events, id).collegeId # users[u].collegeId
                      \/ users[t].collegeId # users[u].collegeId
                THEN last'.res = "Forbidden" /\ assignments' = assignments
              ELSE IF users[t].role # "teacher"
                THEN last'.res = "InvalidRole" /\ assignments' = assignments
              ELSE last'.res \notin {"NotFound", "Forbidden", "InvalidRole"}]_vars

\* Both colleges have an event with staff, and a request has just been refused
\* with Forbidden.
C23_Witness ==
  /\ last = Reply("requestStaffForEvent", "Forbidden")
  /\ \E a \in assignments, b \in assignments :
       users[a.userId].collegeId # users[b.userId].collegeId

(* ---------------------------- account approval ------------------------- *)

\* The target is a row of users that is a pending forum head.
PendingForumHead(t) ==
  /\ t \in DOMAIN users
  /\ users[t].approvalStatus = "pending"
  /\ users[t].role = "forum_head"

\* The forums of the caller and the forums of the target have none in common.
NoCommonForum(u, t) ==
  ForumIdsOf(forumHeads, u) \cap ForumIdsOf(forumHeads, t) = {}

\* The four conditions under which a peer may decide on the target.
PeerMayDecide(u, t) ==
  /\ users[u].approvalStatus = "approved"
  /\ PendingForumHead(t)
  /\ users[u].collegeId = users[t].collegeId
  /\ ~NoCommonForum(u, t)

\* C24 as stated: approveForumHead changes users only under the four
\* conditions, and whenever the two sets of forums are disjoint it replies
\* Forbidden and changes neither users nor forum_heads.
C24_Original ==
  [][last'.op = "approveForumHead" =>
       \A u \in Callers, t \in DOMAIN users \cup {UnknownUser} :
         approveForumHead(Principal(u), t) =>
           /\ users' # users => PeerMayDecide(u, t)
           /\ NoCommonForum(u, t) =>
                 /\ last'.res = "Forbidden"
                 /\ users' = users
                 /\ forumHeads' = forumHeads]_vars

\* C24: approveForumHead sets the target's approvalStatus to approved only if
\* the approver is approved, both are in one college, the target is a pending
\* forum head and their forums intersect.  When the forums are disjoint
\* neither users nor forum_heads changes, and the reply is Forbidden if the
\* target is a pending forum head (NotFound or InvalidTarget if it is not).
C24_ApproveForumHeadGuarded ==
  [][last'.op = "approveForumHead" =>
       \A u \in Callers, t \in DOMAIN users \cup {UnknownUser} :
         approveForumHead(Principal(u), t) =>
           /\ users' # users =>
                 /\ PeerMayDecide(u, t)
                 /\ users' = [users EXCEPT ![t].approvalStatus = "approved"]
           /\ NoCommonForum(u, t) =>
                 /\ users' = users
                 /\ forumHeads' = forumHeads
                 /\ last'.res = IF PendingForumHead(t) THEN "Forbidden"
                                ELSE IF users[u].role # "forum_head"
                                        \/ (t \in DOMAIN users
                                            /\ users[u].approvalStatus # "approved")
                                  THEN "Forbidden"
                                ELSE IF t \notin DOMAIN users THEN "NotFound"
                                ELSE "InvalidTarget"]_vars

\* An approveForumHead call has been refused with Forbidden while the pending
\* forum head holds a membership and shares no forum with the approved forum
\* heads of the college.
C24_Witness ==
  /\ last = Reply("approveForumHead", "Forbidden")
  /\ \E t \in DOMAIN users :
       /\ PendingForumHead(t)
       /\ ForumIdsOf(forumHeads, t) # {}
       /\ \E u \in Callers :
            /\ users[u].role = "forum_head"
            /\ users[u].collegeId = users[t].collegeId
            /\ users[u].approvalStatus = "approved"
            /\ ForumIdsOf(forumHeads, u) # {}
            /\ NoCommonForum(u, t)

\* C25: after a successful approveForumHead the row that has been inserted is a
\* verified membership of the target in a forum where the target held a
\* membership before the call and where the approver holds one too.
C25_VerifiedInSharedForum ==
  [][(last'.op = "approveForumHead" /\ last'.res = "ok") =>
       \A u \in Callers, t \in DOMAIN users :
         approveForumHead(Principal(u), t) =>
           \A r \in forumHeads' \ forumHeads :
             /\ r.userId = t
             /\ r.isVerified
             /\ r.forumId \in ForumIdsOf(forumHeads, t)
             /\ r.forumId \in ForumIdsOf(forumHeads, u)]_vars

\* C26: a successful rejectForumHead or rejectUser on a pending forum head
\* deletes the unverified forum_heads rows of the target and no other row: the
\* verified rows of the target and the rows of every other user stay.
C26_RejectDeletesOnlyUnverified ==
  [][(last'.op \in {"rejectForumHead", "rejectUser"} /\ last'.res = "ok") =>
       \A u \in Callers, t \in DOMAIN users :
         (/\ PendingForumHead(t)
          /\ \/ rejectForumHead(Principal(u), t)
             \/ rejectUser(Principal(u), t)) =>
           forumHeads' = {r \in forumHeads : ~(r.userId = t /\ ~r.isVerified)}]_vars

\* C27: the approvalStatus of a user changes only from pending, to approved or
\* to rejected: an approved user stays approved and a rejected user stays
\* rejected.
C27_ApprovalTerminal ==
  [][\A u \in DOMAIN users :
       users'[u].approvalStatus # users[u].approvalStatus =>
         /\ users[u].approvalStatus = "pending"
         /\ users'[u].approvalStatus \in {"approved", "rejected"}]_vars

(* ------------------------------ tenant scoping ------------------------- *)

\* The rows that belong to a college: its events, the assignments of its
\* events and of its users, its users, and the memberships of its users and
\* in its forums.
TenantData(usr, fh, evs, asg, c) ==
  [events |-> {e \in evs : e.collegeId = c},
   assignments |->
     {a \in asg : \/ \E e \in evs : e.id = a.eventId /\ e.collegeId = c
                  \/ a.userId \in DOMAIN usr /\ usr[a.userId].collegeId = c},
   users |-> {<<u, usr[u]>> : u \in {x \in DOMAIN usr : usr[x].collegeId = c}},
   memberships |->
     {r \in fh : \/ ForumCollege[r.forumId] = c
                 \/ r.userId \in DOMAIN usr /\ usr[r.userId].collegeId = c}]

\* The step leaves the rows of every college but the caller's as they were.
OtherTenantsKept(u) ==
  \A c \in Colleges \ {users[u].collegeId} :
    TenantData(users', forumHeads', events', assignments', c)
      = TenantData(users, forumHeads, events, assignments, c)

\* The event exists and belongs to another college than the caller.
ForeignEvent(u, id) ==
  EventExists(events, id) /\ EventById(events, id).collegeId # users[u].collegeId

\* The user exists and belongs to another college than the caller.
ForeignUser(u, t) ==
  t \in DOMAIN users /\ users[t].collegeId # users[u].collegeId

\* The step changes no row at all.
NothingChanged ==
  /\ users' = users
  /\ forumHeads' = forumHeads
  /\ events' = events
  /\ assignments' = assignments

\* updateEvent, deleteEvent and removeStaffFromEvent on an event of another
\* college reply NotFound, requestStaffForEvent on an event or a teacher of
\* another college replies Forbidden, and no row changes.
CrossTenantEventCallsRefused ==
  [][last'.op \in {"updateEvent", "deleteEvent", "removeStaffFromEvent",
                   "requestStaffForEvent"} =>
       \A u \in DOMAIN users, id \in EventIds :
         /\ (/\ ForeignEvent(u, id)
             /\ \/ deleteEvent(Principal(u), id)
                \/ \E t \in DOMAIN users \cup {UnknownUser} :
                     removeStaffFromEvent(Principal(u), id, t)
                \/ \E st \in AuthTimes \cup {UndefinedTime},
                      en \in AuthTimes \cup {UndefinedTime}, v \in {Null, Undefined} :
                     updateEvent(Principal(u), id, st, en, v, Undefined)) =>
               (last'.res = "NotFound" /\ NothingChanged)
         /\ \A t \in DOMAIN users :
              (/\ EventExists(events, id)
               /\ ForeignEvent(u, id) \/ ForeignUser(u, t)
               /\ requestStaffForEvent(Principal(u), id, t)) =>
                (last'.res = "Forbidden" /\ NothingChanged)]_vars

\* approveUser, rejectUser, approveForumHead and rejectForumHead on a user of
\* another college reply Forbidden and change no row; and whatever the target,
\* a call leaves the rows of the other colleges as they were.
CrossTenantApprovalCallsRefused ==
  [][last'.op \in {"approveUser", "rejectUser", "approveForumHead",
                   "rejectForumHead"} =>
       \A u \in Callers, t \in DOMAIN users :
         (\/ \E f \in Forums \cup {Undefined} : approveUser(Principal(u), t, f)
          \/ rejectUser(Principal(u), t)
          \/ approveForumHead(Principal(u), t)
          \/ rejectForumHead(Principal(u), t)) =>
           /\ OtherTenantsKept(u)
           /\ ForeignUser(u, t) => (last'.res = "Forbidden" /\ NothingChanged)]_vars

\* C28: no call by a principal of one college changes rows of another college:
\* the event handlers reply NotFound (requestStaffForEvent Forbidden) and the
\* approval handlers reply Forbidden when their target belongs to another
\* college, and no event, assignment, user or membership row changes.
C28_NoCrossTenantChange ==
  /\ CrossTenantEventCallsRefused
  /\ CrossTenantApprovalCallsRefused

(* ------------------------ accept against reject ------------------------ *)

\* C29: of an acceptStaffRequest and a rejectStaffRequest that run side by side
\* on one pending assignment at most one reports success, and a status that
\* has been written stays: an assignment that is approved is never rejected
\* and an assignment that is rejected is never approved.
C29_AcceptOrReject ==
  /\ [](\A c \in Calls, d \in Calls :
          (/\ BothDone(c, d)
           /\ tx[c].op = "acceptStaffRequest" /\ tx[d].op = "rejectStaffRequest"
           /\ tx[c].res = "ok" /\ tx[d].res = "ok")
            => tx[c].req.assignmentId # tx[d].req.assignmentId)
  /\ [][\A a \in assignments, b \in assignments' :
          (a.id = b.id /\ a.status \in {"approved", "rejected"})
            => b.status = a.status]_vars

(* ------------------------ update against update ------------------------ *)

\* C30: when two updateEvent calls on one event that run side by side have
\* both replied 200, the event as committed overlaps no other event at its
\* venue.
C30_ConcurrentUpdatesChecked ==
  \A c \in Calls, d \in Calls :
    (/\ BothDone(c, d)
     /\ tx[c].op = "updateEvent" /\ tx[d].op = "updateEvent"
     /\ tx[c].res = "ok" /\ tx[d].res = "ok"
     /\ tx[c].req.eventId = tx[d].req.eventId)
      => \A e1 \in events, e2 \in events :
           e1.id = tx[c].req.eventId => ~DoubleBooked(e1, e2)

(* -------------------- C31: only the organizer updates ------------------ *)

\* C31: an updateEvent call by a forum head of the event's tenant who is not
\* the event's organizer changes no field of the event (the events table is
\* the same after the call).
C31_UpdateOnlyByOrganizer ==
  [][last'.op = "updateEvent" =>
       \A u \in DOMAIN users, id \in EventIds :
         (/\ EventInScope(u, id)
          /\ users[u].role = "forum_head"
          /\ EventById(events, id).organizerId # u) =>
           \A s \in AuthTimes \cup {UndefinedTime}, e \in AuthTimes \cup {UndefinedTime},
              v \in {"v1", Null, Undefined} :
             updateEvent(Principal(u), id, s, e, v, Undefined) => events' = events]_vars

(* ------------------ C32: venues of the event's tenant ------------------ *)

\* C32: in every reachable state, an event whose venueId is set refers to a
\* venue that exists and belongs to the same tenant as the event.
C32_VenueWithinTenant ==
  \A e \in events :
    e.venueId # Null =>
      /\ e.venueId \in Venues
      /\ VenueCollege[e.venueId] = e.collegeId

(* --------------- C33: verified memberships authorize peers ------------- *)

\* The approver holds a verified forum_heads row in a forum where the target
\* holds a membership.
VerifiedInSharedForum(u, t) ==
  \E r \in MembershipsOf(forumHeads, u) :
    r.isVerified /\ r.forumId \in ForumIdsOf(forumHeads, t)

\* Every check of a peer decision other than the one on forums passes.
PeerEligible(u, t) ==
  /\ t \in DOMAIN users
  /\ users[u].role = "forum_head"
  /\ users[u].approvalStatus = "approved"
  /\ PendingForumHead(t)
  /\ users[u].collegeId = users[t].collegeId

PeerDecisionNeedsVerified(u, t) ==
  /\ last'.res = "ok" => VerifiedInSharedForum(u, t)
  /\ (PeerEligible(u, t) /\ ~VerifiedInSharedForum(u, t)) =>
        /\ last'.res = "Forbidden"
        /\ users' = users
        /\ forumHeads' = forumHeads

\* C33: approveForumHead and rejectForumHead succeed only if the approver
\* holds a forum_heads row with isVerified = true in a forum where the target
\* holds a membership; an approver whose only row in the shared forum is
\* unverified gets Forbidden and the target is unchanged.
C33_VerifiedApproverOnly ==
  [][/\ last'.op = "approveForumHead" =>
          \A u \in Callers, t \in DOMAIN users \cup {UnknownUser} :
            approveForumHead(Principal(u), t) => PeerDecisionNeedsVerified(u, t)
     /\ last'.op = "rejectForumHead" =>
          \A u \in Callers, t \in DOMAIN users \cup {UnknownUser} :
            rejectForumHead(Principal(u), t) => PeerDecisionNeedsVerified(u, t)]_vars

(* ------------------- C34: approveUser is all-or-nothing ---------------- *)

\* C34: when approveUser fails because no forumId was supplied, the users and
\* forum_heads tables are the same as before the call; and whenever a call
\* that succeeds or writes leaves a forum-head target approved, the target
\* holds a verified forum_heads row for the forumId named in the call.
C34_ApproveUserAllOrNothing ==
  [][last'.op = "approveUser" =>
       \A u \in Callers, t \in DOMAIN users, f \in Forums \cup {Undefined} :
         approveUser(Principal(u), t, f) =>
           /\ last'.res = "MissingForum" =>
                 /\ users' = users
                 /\ forumHeads' = forumHeads
           /\ (/\ users[t].role = "forum_head"
               /\ users'[t].approvalStatus = "approved"
               /\ (last'.res = "ok" \/ users' # users \/ forumHeads' # forumHeads)) =>
                 \E r \in forumHeads' :
                   r.userId = t /\ r.forumId = f /\ r.isVerified]_vars

(* ------------------- C35: order of the request checks ------------------ *)

\* The first check that fails when the checks run in the order existence,
\* tenant, role, duplicate, schedule conflict; "ok" when none fails.
FirstFailedCheck(u, id, t) ==
  IF ~EventExists(events, id) \/ t \notin DOMAIN users THEN "NotFound"
  ELSE IF \/ EventById(events, id).collegeId # users[u].collegeId
          \/ users[t].collegeId # users[u].collegeId THEN "Forbidden"
  ELSE IF users[t].role # "teacher" THEN "InvalidRole"
  ELSE IF Requested(id, t) THEN "DuplicateRequest"
  ELSE IF TeacherBusy(events, assignments, id, t) THEN "ScheduleConflict"
  ELSE "ok"

\* C35: requestStaff reports the first check that fails in the order existence,
\* tenant, role, duplicate, schedule conflict, and a call that fails inserts
\* nothing: a re-request of a teacher for an event on which the teacher is
\* approved fails with DuplicateRequest, and a target outside the caller's
\* tenant that is not a teacher fails with Forbidden.
C35_RequestCheckOrder ==
  [][last'.op = "requestStaffForEvent" =>
       \A u \in DOMAIN users, id \in EventIds, t \in DOMAIN users \cup {UnknownUser} :
         requestStaffForEvent(Principal(u), id, t) =>
           /\ last'.res = FirstFailedCheck(u, id, t)
           /\ last'.res # "ok" => assignments' = assignments]_vars

\* A request has been refused as a duplicate while the only assignment of the
\* store is approved: the request named the pair of that assignment.
C35_Witness ==
  /\ last = Reply("requestStaffForEvent", "DuplicateRequest")
  /\ Cardinality(assignments) = 1
  /\ \A a \in assignments : a.status = "approved"

(* ------------------ C36: events that book no venue --------------------- *)

\* A createEvent call by a forum head with the given window and venue can end
\* in the reply res.
CreateCanReply(s, e, v, res) ==
  \E u \in DOMAIN users :
    ENABLED (/\ createEvent(Principal(u), s, e, v, "cover")
             /\ UNCHANGED <<tx, forumHeads>>
             /\ last'.res = res)

\* createEvent with no venue and a valid window inserts the event, whatever
\* events the store holds (while the store has room for a row).
CreateWithoutVenueSucceeds ==
  \A s \in BookingTimes, e \in BookingTimes :
    (s < e /\ Cardinality(events) < MaxEvents) =>
      /\ CreateCanReply(s, e, Null, "ok")
      /\ \A res \in {"InvalidInterval", "VenueConflict", "Unexpected"} :
           ~CreateCanReply(s, e, Null, res)

\* updateEvent with venueId null in the body replies ok and leaves the event
\* without a venue, whatever window it supplies and whatever events exist.
UpdateToNoVenueSucceeds ==
  \A id \in EventIds, u \in DOMAIN users,
     s \in BookingTimes \cup {UndefinedTime}, e \in BookingTimes \cup {UndefinedTime} :
    MayUpdate(u, id) =>
      ~ENABLED (/\ updateEvent(Principal(u), id, s, e, Null, Undefined)
                /\ UNCHANGED <<tx, forumHeads>>
                /\ ~(/\ last'.res = "ok"
                     /\ EventExists(events', id)
                     /\ EventById(events', id).venueId = Null))

\* A VenueConflict reply of createEvent or updateEvent is owed to another
\* event that books the venue of the call.
ConflictNeedsVenueBearingEvent ==
  /\ \A s \in BookingTimes, e \in BookingTimes, v \in Venues \cup {Null} :
       CreateCanReply(s, e, v, "VenueConflict") =>
         \E x \in events : x.venueId # Null /\ x.venueId = v
  /\ \A id \in EventIds, body \in UpdateBodies :
       (/\ body.resizeMode = Undefined
        /\ EventExists(events, id)
        /\ ~\E x \in events :
              /\ x.id # id
              /\ x.venueId # Null
              /\ x.venueId = Effective(EventById(events, id), body).venueId)
         => ~UpdateCanEndOtherwise(id, body, "ok", FALSE)

\* C36: an event without a venue never takes part in venue conflicts:
\* createEvent with no venueId and start < end always succeeds, an updateEvent
\* that sets venueId to null succeeds without any conflict check, and a
\* venue-less event never causes VenueConflict for a createEvent or
\* updateEvent of another event.
C36_NoVenueNoConflict ==
  /\ CreateWithoutVenueSucceeds
  /\ UpdateToNoVenueSucceeds
  /\ ConflictNeedsVenueBearingEvent

\* A createEvent has succeeded and the store holds an event without a venue
\* and an event with a venue whose valid windows overlap.
C36_Witness ==
  /\ last = Reply("createEvent", "ok")
  /\ \E x \in events, y \in events :
       /\ x.venueId = Null /\ y.venueId # Null
       /\ x.startTime < x.endTime /\ y.startTime < y.endTime
       /\ Overlaps(x.startTime, x.endTime, y.startTime, y.endTime)

(* --------------- C37: a deleted assignment frees its pair -------------- *)

\* A requestStaff call by u for the pair can end in a way that `expected`
\* rules out.
RequestCanEndOtherwise(u, id, t, expected(_, _)) ==
  ENABLED (/\ requestStaffForEvent(Principal(u), id, t)
           /\ UNCHANGED <<tx, forumHeads>>
           /\ ~expected(last', assignments'))

NotDuplicate(reply, asg) == reply.res # "DuplicateRequest"

\* The call has replied ok and inserted exactly one row, a pending one.
InsertedPending(reply, asg) ==
  /\ reply.res = "ok"
  /\ assignments \subseteq asg
  /\ Cardinality(asg \ assignments) = 1
  /\ \A a \in asg \ assignments : a.status = "pending"

\* A pair without a row can be requested: the call is not refused as a
\* duplicate, and when the teacher has no overlapping approved assignment it
\* inserts a pending row for the pair (while the store has room for a row).
PairWithoutRowRequestable ==
  \A u \in DOMAIN users, id \in EventIds, t \in DOMAIN users :
    (/\ users[u].role = "forum_head"
     /\ RequestValid(Principal(u), id, t)
     /\ ~Requested(id, t)) =>
       /\ ~RequestCanEndOtherwise(u, id, t, NotDuplicate)
       /\ (~TeacherBusy(events, assignments, id, t)
             /\ Cardinality(assignments) < MaxAssignments) =>
             /\ ENABLED (requestStaffForEvent(Principal(u), id, t)
                            /\ UNCHANGED <<tx, forumHeads>>)
             /\ ~RequestCanEndOtherwise(u, id, t, InsertedPending)
             /\ ~ENABLED (/\ requestStaffForEvent(Principal(u), id, t)
                          /\ UNCHANGED <<tx, forumHeads>>
                          /\ ~\E a \in assignments' :
                                a.eventId = id /\ a.userId = t /\ a.status = "pending")

\* A successful cancelStaffRequest or removeStaffFromEvent leaves the pair it
\* names without any row.
DeletionClearsPair ==
  [][/\ (last'.op = "cancelStaffRequest" /\ last'.res = "ok") =>
          \A u \in DOMAIN users, a \in assignments :
            cancelStaffRequest(Principal(u), a.id) =>
              ~\E b \in assignments' : b.eventId = a.eventId /\ b.userId = a.userId
     /\ (last'.op = "removeStaffFromEvent" /\ last'.res = "ok") =>
          \A u \in DOMAIN users, id \in EventIds, t \in DOMAIN users :
            removeStaffFromEvent(Principal(u), id, t) =>
              ~\E b \in assignments' : b.eventId = id /\ b.userId = t]_vars

\* C37: once an assignment row has been deleted by cancelStaffRequest or by
\* removeStaffFromEvent, a new requestStaff for its (event, teacher) pair does
\* not fail with DuplicateRequest and, if the teacher has no overlapping
\* approved assignment, creates a fresh pending assignment.
C37_DeletedPairRequestable ==
  /\ []PairWithoutRowRequestable
  /\ DeletionClearsPair

\* A teacher has just cancelled the only assignment of the store; its event
\* still exists.
C37_Witness ==
  /\ last = Reply("cancelStaffRequest", "ok")
  /\ assignments = {}
  /\ events # {}

(* ------------------- C38: assignments name teachers -------------------- *)

\* C38: in every reachable state the user of every pending or approved staff
\* assignment has role teacher.
C38_AssignedUsersAreTeachers ==
  \A a \in assignments :
    a.status \in {"pending", "approved"} => users[a.userId].role = "teacher"

====
